---- MODULE Spec2Model ----
(***************************************************************************)
(* Model of the streaming-completion adapter (sendLLMMessage.impl): one    *)
(* chat request of one provider family, from the call of sendChat to the   *)
(* terminal callback.                                                      *)
(*                                                                         *)
(* Strings are sequences of tokens: "" is <<>> and + is \o.  An optional   *)
(* value (toolCall?: ..., undefined, null) is a set with at most one       *)
(* element: {} is undefined/null.                                          *)
(***************************************************************************)
EXTENDS Integers, Sequences, FiniteSets, TLC

\* ------------------------------------------------------------------ bounds
\* inbound chunks / stream events of one request
MaxChunks == 3
\* tasks returned by /api/tasks/create
MaxTasks == 2
\* invocations of the cancel function by the caller
MaxAborts == 2

\* ------------------------------------------------------------ JSON values
\* Tokens of the argument strings.  A pair token "k:v" is one  "k":v  member.
PairTokens == {"a:1", "a:2", "b:2"}

KeyOf(tok) == IF tok = "b:2" THEN "b" ELSE "a"

ValOf(tok) == IF tok = "a:1" THEN 1 ELSE 2

\* A JS value: type is what JSON.parse produced, entries its own enumerable
\* properties in insertion order (Object.keys order).
JSValue(type, entries) == [type |-> type, entries |-> entries]

EmptyObject == JSValue("object", <<>>)

RECURSIVE SetEntry(_, _, _)
\* obj[k] = v : an existing key keeps its position, a new key goes last
SetEntry(entries, k, v) ==
    IF entries = <<>> THEN << [k |-> k, v |-> v] >>
    ELSE IF Head(entries).k = k THEN << [k |-> k, v |-> v] >> \o Tail(entries)
    ELSE << Head(entries) >> \o SetEntry(Tail(entries), k, v)

RECURSIVE ObjectMembers(_, _)
\* the members between the braces, read left to right
ObjectMembers(s, acc) ==
    IF s = <<>> THEN acc
    ELSE IF Head(s) = "," THEN ObjectMembers(Tail(s), acc)
    ELSE ObjectMembers(Tail(s), SetEntry(acc, KeyOf(Head(s)), ValOf(Head(s))))

Inner(s) == SubSeq(s, 2, Len(s) - 1)

\* members separated by commas: m , m , m
IsMemberList(s, members) ==
    /\ Len(s) % 2 = 1
    /\ \A i \in 1..Len(s) : IF i % 2 = 1 THEN s[i] \in members ELSE s[i] = ","

IsObjectText(s) ==
    /\ Len(s) >= 2
    /\ s[1] = "{"
    /\ s[Len(s)] = "}"
    /\ (Len(s) = 2 \/ IsMemberList(Inner(s), PairTokens))

IsArrayText(s) ==
    /\ Len(s) >= 2
    /\ s[1] = "["
    /\ s[Len(s)] = "]"
    /\ (Len(s) = 2 \/ IsMemberList(Inner(s), {"7"}))

IndexKeys == << "0", "1", "2", "3", "4", "5", "6", "7", "8", "9" >>

RECURSIVE ArrayElements(_, _)
ArrayElements(s, acc) ==
    IF s = <<>> THEN acc
    ELSE IF Head(s) = "," THEN ArrayElements(Tail(s), acc)
    ELSE ArrayElements(Tail(s), Append(acc, [k |-> IndexKeys[Len(acc) + 1], v |-> 7]))

\* JSON.parse: type "invalid" stands for the SyntaxError it throws
JSONparse(s) ==
    IF s = << "null" >> THEN JSValue("null", <<>>)
    ELSE IF s = << "7" >> THEN JSValue("number", <<>>)
    ELSE IF IsObjectText(s) THEN JSValue("object", ObjectMembers(Inner(s), <<>>))
    ELSE IF IsArrayText(s) THEN JSValue("array", ArrayElements(Inner(s), <<>>))
    ELSE JSValue("invalid", <<>>)

\* typeof: null and arrays are 'object'
TypeOf(v) == IF v.type \in {"object", "array", "null"} THEN "object" ELSE v.type

ObjectKeys(v) == [i \in 1..Len(v.entries) |-> v.entries[i].k]

PairTokenOf(e) == CHOOSE t \in PairTokens : KeyOf(t) = e.k /\ ValOf(t) = e.v

RECURSIVE JoinMembers(_)
JoinMembers(entries) ==
    IF entries = <<>> THEN <<>>
    ELSE IF Len(entries) = 1 THEN << PairTokenOf(entries[1]) >>
    ELSE << PairTokenOf(entries[1]), "," >> \o JoinMembers(Tail(entries))

\* JSON.stringify of a plain object
JSONstringify(v) == << "{" >> \o JoinMembers(v.entries) \o << "}" >>

\* ------------------------------------------------------------- tool calls
ToolCall(id, name, rawParams, doneParams, isDone) ==
    [id |-> id, name |-> name, rawParams |-> rawParams,
     doneParams |-> doneParams, isDone |-> isDone]

\* mutant of rawToolCallObjOfParamsStr: the parsed keys are not reported as done
rawToolCallObjOfParamsStrNoKeys(name, paramsStr, id) ==
    LET input == JSONparse(paramsStr) IN
    IF input.type = "invalid" THEN {}
    ELSE IF input.type = "null" THEN {}
    ELSE IF TypeOf(input) # "object" THEN {}
    ELSE { ToolCall(id, name, input, <<>>, FALSE) }

rawToolCallObjOfParamsStr(name, paramsStr, id) ==
    LET input == JSONparse(paramsStr) IN
    IF input.type = "invalid" THEN {}
    ELSE IF input.type = "null" THEN {}
    ELSE IF TypeOf(input) # "object" THEN {}
    ELSE { ToolCall(id, name, input, ObjectKeys(input), TRUE) }

rawToolCallObjOfAnthropicParams(toolBlock) ==
    LET input == toolBlock.input IN
    IF input.type = "null" THEN {}
    ELSE IF TypeOf(input) # "object" THEN {}
    ELSE { ToolCall(toolBlock.id, toolBlock.name, input, ObjectKeys(input), TRUE) }

\* mutant of PartialToolCall: a placeholder object even without a name
PartialToolCallAlways(name, id) == { ToolCall(id, name, EmptyObject, <<>>, FALSE) }

\* mutant of PartialToolCall: the incremental toolCall is marked finished
PartialToolCallDone(name, id) ==
    IF name = <<>> THEN {} ELSE { ToolCall(id, name, EmptyObject, <<>>, TRUE) }

\* toolCall of an incremental emission
PartialToolCall(name, id) ==
    IF name = <<>> THEN {} ELSE { ToolCall(id, name, EmptyObject, <<>>, FALSE) }

\* -------------------------------------------------------------- the state
VARIABLES
    family,          \* provider family the dispatch table selected
    reasoningField,  \* nameOfReasoningFieldInDelta is set (OpenAI-wire)
    pc,              \* position of the request
    fullText,        \* fullTextSoFar / fullText
    fullReasoning,   \* fullReasoningSoFar / fullReasoning
    toolName,        \* toolName / fullToolName
    toolId,          \* toolId
    toolParamsStr,   \* toolParamsStr / fullToolParams
    snapshot,        \* content blocks of the message the Anthropic stream builds
    calls,           \* the callbacks invoked so far, in order
    nSetAborter,     \* invocations of _setAborter
    nAbort,          \* invocations of the cancel function
    cancelAt,        \* Len(calls) at the first cancel before completion, or -1
    recv,            \* the inbound chunks / events / progress strings so far
    outcome,         \* how the request ended
    selectedModel,   \* Division: "direct" or "division-orchestrator"
    tasks,           \* Division: tasks of /api/tasks/create
    taskIdx,         \* Division: index i of the task loop
    failure,         \* the failure the transport or the client construction reported
    capabilities,    \* what getModelCapabilities resolved (fill-in-middle requests)
    files,           \* paths that exist in the workspace folder
    allowedTools,    \* what availableTools(chatMode, mcpTools) returned
    specialToolFormat, \* native tool style getModelCapabilities resolved
    payload,         \* the request the builder handed to the provider's client
    reasoningIO,     \* reasoning output settings the capabilities resolved
    installed,       \* the fallback wrappers put around onText / onFinalMessage
    providerName,    \* the provider identifier of the request
    operation,       \* the entry of the provider the caller asks for
    implementation,  \* what the dispatch table holds there
    rawFilePath,     \* the path annotation of a code block of a generated output
    service          \* DivisionProjectService, its workspace and its pending operations

vars == << family, reasoningField, pc, fullText, fullReasoning, toolName, toolId,
           toolParamsStr, snapshot, calls, nSetAborter, nAbort, cancelAt, recv,
           outcome, selectedModel, tasks, taskIdx, failure, capabilities,
           files, allowedTools, specialToolFormat, payload,
           reasoningIO, installed, providerName, operation, implementation,
           rawFilePath, service >>

buildVars == << allowedTools, specialToolFormat, payload, reasoningIO, installed,
                providerName, operation, implementation, rawFilePath, service >>

\* needsManualParse of providerReasoningIOSettings.output, and canIOReasoning
\* and openSourceThinkTags of the reasoning capabilities of the model
ReasoningIO ==
    [needsManualParse : BOOLEAN, canIOReasoning : BOOLEAN, openSourceThinkTags : BOOLEAN]

NoReasoningIO ==
    [needsManualParse |-> FALSE, canIOReasoning |-> FALSE, openSourceThinkTags |-> FALSE]

accVars == << fullText, fullReasoning, toolName, toolId, toolParamsStr >>

divVars == << selectedModel, tasks, taskIdx, files >>

Families == {"openai", "anthropic", "gemini", "division"}

\* getModelCapabilities(providerName, modelName_, overridesOfModel) for the
\* requested model "m"
Capabilities(modelName, supportsFIM) == [modelName |-> modelName, supportsFIM |-> supportsFIM]

Init ==
    /\ family \in Families
    /\ reasoningField \in (IF family = "openai" THEN BOOLEAN ELSE {FALSE})
    /\ pc = "start"
    /\ fullText = <<>>
    /\ fullReasoning = <<>>
    /\ toolName = <<>>
    /\ toolId = <<>>
    /\ toolParamsStr = <<>>
    /\ snapshot = <<>>
    /\ calls = <<>>
    /\ nSetAborter = 0
    /\ nAbort = 0
    /\ cancelAt = -1
    /\ recv = <<>>
    /\ outcome = "none"
    /\ selectedModel \in (IF family = "division" THEN {"direct", "division-orchestrator"} ELSE {"none"})
    /\ tasks = <<>>
    /\ taskIdx = 0
    /\ failure = {}
    /\ files = {}
    /\ allowedTools = {}
    /\ specialToolFormat = {}
    /\ payload = <<>>
    /\ reasoningIO = NoReasoningIO
    /\ installed = {}
    /\ providerName = "none"
    /\ operation = "none"
    /\ implementation = "none"
    /\ rawFilePath = <<>>
    /\ service = <<>>
    /\ capabilities = Capabilities("m", FALSE)

\* -------------------------------------------------------------- callbacks
OnTextCall(text, reasoning, toolCall) ==
    [cb |-> "onText", fullText |-> text, fullReasoning |-> reasoning,
     toolCall |-> toolCall, anthropicReasoning |-> {}, message |-> "none"]

OnFinalMessageCall(text, reasoning, anthropicReasoning, toolCall) ==
    [cb |-> "onFinalMessage", fullText |-> text, fullReasoning |-> reasoning,
     toolCall |-> toolCall, anthropicReasoning |-> anthropicReasoning, message |-> "none"]

OnErrorCall(message) ==
    [cb |-> "onError", fullText |-> <<>>, fullReasoning |-> <<>>,
     toolCall |-> {}, anthropicReasoning |-> {}, message |-> message]

\* mutant of AccumulateText: the emission carries the new fragment only
AccumulateTextIncremental(soFar, new) == new

\* fullTextSoFar += newText
AccumulateText(soFar, new) == soFar \o new

\* x ?? ''
OrEmpty(opt) == IF opt = {} THEN <<>> ELSE CHOOSE x \in opt : TRUE

\* failures a transport can report: HTTP status and what the message contains
Errors ==
    { [status |-> 401, message |-> "API key"],
      [status |-> 401, message |-> "plain"],
      [status |-> 429, message |-> "429"],
      [status |-> 500, message |-> "plain"] }

\* an Error that is no API error: it has no HTTP status
Thrown(message) == [status |-> 0, message |-> message]

\* the request is cancelled and has not completed since
Cancelled == cancelAt # -1

\* mutant of Abort: a repeated or late cancel ends the request once more
AbortNotIdempotent ==
    /\ nSetAborter > 0
    /\ nAbort < MaxAborts
    /\ nAbort' = nAbort + 1
    /\ cancelAt' = IF cancelAt = -1 /\ pc # "done" THEN Len(calls) ELSE cancelAt
    /\ calls' = IF nAbort > 0 \/ pc = "done"
                THEN Append(calls, OnFinalMessageCall(<<>>, <<>>, {}, {}))
                ELSE calls
    /\ UNCHANGED << buildVars, family, reasoningField, capabilities, failure, pc, accVars, snapshot,
                    nSetAborter, recv, outcome, divVars >>

\* the caller invokes the cancel function _setAborter handed over
Abort ==
    /\ nSetAborter > 0
    /\ nAbort < MaxAborts
    /\ nAbort' = nAbort + 1
    /\ cancelAt' = IF cancelAt = -1 /\ pc # "done" THEN Len(calls) ELSE cancelAt
    /\ UNCHANGED << buildVars, family, reasoningField, capabilities, failure, pc, accVars, snapshot, calls,
                    nSetAborter, recv, outcome, divVars >>

\* ------------------------------------------------------------ OpenAI-wire
ToolDelta(index, name, arguments, id) ==
    [index |-> index, name |-> name, arguments |-> arguments, id |-> id]

OpenAIChunkOf(content, tool_calls, reasoning) ==
    [content |-> content, tool_calls |-> tool_calls, reasoning |-> reasoning]

OpenAIChunks ==
    { OpenAIChunkOf({<<"a">>}, <<>>, {}),
      OpenAIChunkOf({<<"b">>}, <<>>, {}),
      OpenAIChunkOf({}, <<>>, {}),
      OpenAIChunkOf({}, <<>>, {<<"r">>}),
      OpenAIChunkOf({}, << ToolDelta(0, {<<"f">>}, {<<"{">>}, {<<"i">>}) >>, {}),
      OpenAIChunkOf({}, << ToolDelta(0, {}, {<<"a:1", "}">>}, {}) >>, {}),
      OpenAIChunkOf({}, << ToolDelta(0, {}, {<<"[", "]">>}, {}) >>, {}),
      OpenAIChunkOf({}, << ToolDelta(0, {}, {<<"null">>}, {}) >>, {}),
      OpenAIChunkOf({}, << ToolDelta(1, {<<"g">>}, {<<"{", "}">>}, {<<"j">>}) >>, {}),
      OpenAIChunkOf({}, << ToolDelta(0, {<<"f">>}, {}, {<<"i">>}),
                           ToolDelta(1, {<<"g">>}, {<<"{", "}">>}, {<<"j">>}) >>, {}) }

\* mutant of ApplyToolDeltas: the index of a delta is not looked at
ApplyToolDeltasAnyIndex(deltas, acc) ==
    LET F[i \in 0..Len(deltas)] ==
          IF i = 0 THEN acc
          ELSE [name |-> F[i - 1].name \o OrEmpty(deltas[i].name),
                params |-> F[i - 1].params \o OrEmpty(deltas[i].arguments),
                id |-> F[i - 1].id \o OrEmpty(deltas[i].id)]
    IN F[Len(deltas)]

RECURSIVE ApplyToolDeltas(_, _)
\* for (const tool of chunk.choices[0]?.delta?.tool_calls ?? [])
ApplyToolDeltas(deltas, acc) ==
    IF deltas = <<>> THEN acc
    ELSE LET tool == Head(deltas) IN
         IF tool.index # 0 THEN ApplyToolDeltas(Tail(deltas), acc)
         ELSE ApplyToolDeltas(Tail(deltas),
                [name |-> acc.name \o OrEmpty(tool.name),
                 params |-> acc.params \o OrEmpty(tool.arguments),
                 id |-> acc.id \o OrEmpty(tool.id)])

\* mutant of OpenAIClientFails: the client error is raised while the stream runs
OpenAIClientFailsInStream ==
    /\ family = "openai"
    /\ pc = "streaming"
    /\ pc' = "done"
    /\ outcome' = "rejected"
    /\ failure' = {Thrown("configuration")}
    /\ UNCHANGED << buildVars, family, reasoningField, capabilities, accVars, snapshot, calls, nSetAborter,
                    nAbort, cancelAt, recv, divVars >>

\* await newOpenAICompatibleSDK(...) throws: the async function rejects
OpenAIClientFails ==
    /\ family = "openai"
    /\ pc = "start"
    /\ pc' = "done"
    /\ outcome' = "rejected"
    /\ failure' = {Thrown("configuration")}
    /\ UNCHANGED << buildVars, family, reasoningField, capabilities, accVars, snapshot, calls, nSetAborter,
                    nAbort, cancelAt, recv, divVars >>

\* openai.chat.completions.create(options) is issued
OpenAICreate ==
    /\ family = "openai"
    /\ pc = "start"
    /\ pc' = "creating"
    /\ UNCHANGED << buildVars, family, reasoningField, capabilities, failure, accVars, snapshot, calls, nSetAborter,
                    nAbort, cancelAt, recv, outcome, divVars >>

\* mutant of OpenAIStreamOpens: the cancel function is never handed over
OpenAIStreamOpensNoAborter ==
    /\ family = "openai"
    /\ pc = "creating"
    /\ pc' = "streaming"
    /\ UNCHANGED << buildVars, family, reasoningField, capabilities, failure, accVars, snapshot, calls, nSetAborter,
                    nAbort, cancelAt, recv, outcome, divVars >>

\* .then: the stream exists
OpenAIStreamOpens ==
    /\ family = "openai"
    /\ pc = "creating"
    /\ nSetAborter' = nSetAborter + 1
    /\ pc' = "streaming"
    /\ UNCHANGED << buildVars, family, reasoningField, capabilities, failure, accVars, snapshot, calls,
                    nAbort, cancelAt, recv, outcome, divVars >>

OpenAIErrorMessage(error) ==
    IF error.status = 401 THEN "invalidApiKey" ELSE "generic"

\* .catch(error => ...)
OpenAICatch(error) ==
    /\ calls' = Append(calls, OnErrorCall(OpenAIErrorMessage(error)))
    /\ failure' = {error}
    /\ pc' = "done"
    /\ outcome' = "failed"
    /\ UNCHANGED << buildVars, family, reasoningField, capabilities, accVars, snapshot, nSetAborter,
                    nAbort, cancelAt, recv, divVars >>

OpenAICreateRejects ==
    /\ family = "openai"
    /\ pc = "creating"
    /\ \E error \in Errors : OpenAICatch(error)

\* one iteration of  for await (const chunk of response)
OpenAIChunk ==
    /\ family = "openai"
    /\ pc = "streaming"
    /\ ~Cancelled
    /\ Len(recv) < MaxChunks
    /\ \E chunk \in OpenAIChunks :
         LET newText == OrEmpty(chunk.content)
             tool == ApplyToolDeltas(chunk.tool_calls,
                        [name |-> toolName, params |-> toolParamsStr, id |-> toolId])
             newReasoning == IF reasoningField THEN OrEmpty(chunk.reasoning) ELSE <<>>
         IN
         /\ fullText' = AccumulateText(fullText, newText)
         /\ toolName' = tool.name
         /\ toolParamsStr' = tool.params
         /\ toolId' = tool.id
         /\ fullReasoning' = fullReasoning \o newReasoning
         /\ calls' = Append(calls, OnTextCall(fullText', fullReasoning',
                                              PartialToolCall(toolName', toolId')))
         /\ recv' = Append(recv, [kind |-> IF chunk.content = {} THEN "other" ELSE "text",
                                  text |-> newText,
                                  tool_calls |-> chunk.tool_calls])
    /\ UNCHANGED << buildVars, family, reasoningField, capabilities, failure, pc, snapshot, nSetAborter, nAbort,
                    cancelAt, outcome, divVars >>

\* mutant of OpenAIOnFinal: the else of the empty-response test is missing
OpenAIOnFinalNoElse ==
    /\ family = "openai"
    /\ pc = "streaming"
    /\ calls' = (calls \o
         (IF fullText = <<>> /\ fullReasoning = <<>> /\ toolName = <<>>
          THEN << OnErrorCall("empty") >> ELSE <<>>)) \o
         << OnFinalMessageCall(fullText, fullReasoning, {},
                               rawToolCallObjOfParamsStr(toolName, toolParamsStr, toolId)) >>
    /\ pc' = "done"
    /\ outcome' = "ended"
    /\ UNCHANGED << buildVars, family, reasoningField, capabilities, failure, accVars, snapshot, nSetAborter,
                    nAbort, cancelAt, recv, divVars >>

\* the stream is exhausted (after an abort the SDK ends the iteration)
OpenAIOnFinal ==
    /\ family = "openai"
    /\ pc = "streaming"
    /\ calls' = Append(calls,
         IF fullText = <<>> /\ fullReasoning = <<>> /\ toolName = <<>>
         THEN OnErrorCall("empty")
         ELSE OnFinalMessageCall(fullText, fullReasoning, {},
                                 rawToolCallObjOfParamsStr(toolName, toolParamsStr, toolId)))
    /\ pc' = "done"
    /\ outcome' = "ended"
    /\ UNCHANGED << buildVars, family, reasoningField, capabilities, failure, accVars, snapshot, nSetAborter,
                    nAbort, cancelAt, recv, divVars >>

\* the iteration throws (a transport failure, or the abort surfacing as an error)
OpenAIStreamThrows ==
    /\ family = "openai"
    /\ pc = "streaming"
    /\ \E error \in Errors : OpenAICatch(error)

\* ---------------------------------------------------------------- Gemini
FunctionCall(name, args, id) == [name |-> name, args |-> args, id |-> id]

GeminiChunkOf(text, functionCalls) == [text |-> text, functionCalls |-> functionCalls]

GeminiChunks ==
    { GeminiChunkOf({<<"a">>}, <<>>),
      GeminiChunkOf({<<"b">>}, <<>>),
      GeminiChunkOf({}, <<>>),
      GeminiChunkOf({}, << FunctionCall({<<"f">>},
                             {JSValue("object", << [k |-> "b", v |-> 2], [k |-> "a", v |-> 1] >>)},
                             {<<"i">>}) >>),
      GeminiChunkOf({}, << FunctionCall({<<"g">>}, {}, {}),
                           FunctionCall({<<"f">>}, {EmptyObject}, {<<"i">>}) >>),
      GeminiChunkOf({<<"a">>}, << FunctionCall({}, {JSValue("object", << [k |-> "a", v |-> 2] >>)}, {}) >>) }

\* generateUuid()
generateUuid == << "uuid" >>

\* genAI.models.generateContentStream(...) is issued
GeminiCreate ==
    /\ family = "gemini"
    /\ pc = "start"
    /\ pc' = "creating"
    /\ UNCHANGED << buildVars, family, reasoningField, capabilities, failure, accVars, snapshot, calls, nSetAborter,
                    nAbort, cancelAt, recv, outcome, divVars >>

GeminiStreamOpens ==
    /\ family = "gemini"
    /\ pc = "creating"
    /\ nSetAborter' = nSetAborter + 1
    /\ pc' = "streaming"
    /\ UNCHANGED << buildVars, family, reasoningField, capabilities, failure, accVars, snapshot, calls,
                    nAbort, cancelAt, recv, outcome, divVars >>

GeminiErrorMessage(error) ==
    IF error.message = "API key" THEN "invalidApiKey"
    ELSE IF error.message = "429" THEN "rateLimit"
    ELSE "generic"

GeminiCatch(error) ==
    /\ calls' = Append(calls, OnErrorCall(GeminiErrorMessage(error)))
    /\ failure' = {error}
    /\ pc' = "done"
    /\ outcome' = "failed"
    /\ UNCHANGED << buildVars, family, reasoningField, capabilities, accVars, snapshot, nSetAborter,
                    nAbort, cancelAt, recv, divVars >>

GeminiCreateRejects ==
    /\ family = "gemini"
    /\ pc = "creating"
    /\ \E error \in Errors : GeminiCatch(error)

\* One iteration of  for await (const chunk of stream).  The aborter is
\* stream.return(): the generator finishes once the next() it is serving has
\* settled, so the chunk that was being awaited is still delivered.
GeminiChunk ==
    /\ family = "gemini"
    /\ pc = "streaming"
    /\ (~Cancelled \/ Len(calls) = cancelAt)
    /\ Len(recv) < MaxChunks
    /\ \E chunk \in GeminiChunks :
         LET newText == OrEmpty(chunk.text)
             has == Len(chunk.functionCalls) > 0
             functionCall == chunk.functionCalls[1]
         IN
         /\ fullText' = AccumulateText(fullText, newText)
         /\ toolName' = IF has THEN OrEmpty(functionCall.name) ELSE toolName
         /\ toolParamsStr' = IF has
                             THEN JSONstringify(IF functionCall.args = {} THEN EmptyObject
                                                ELSE CHOOSE a \in functionCall.args : TRUE)
                             ELSE toolParamsStr
         /\ toolId' = IF has THEN OrEmpty(functionCall.id) ELSE toolId
         /\ calls' = Append(calls, OnTextCall(fullText', fullReasoning,
                                              PartialToolCall(toolName', toolId')))
         /\ recv' = Append(recv, [kind |-> IF chunk.text = {} THEN "other" ELSE "text",
                                  text |-> newText])
    /\ UNCHANGED << buildVars, family, reasoningField, capabilities, failure, pc, fullReasoning, snapshot, nSetAborter,
                    nAbort, cancelAt, outcome, divVars >>

GeminiOnFinal ==
    /\ family = "gemini"
    /\ pc = "streaming"
    /\ IF fullText = <<>> /\ fullReasoning = <<>> /\ toolName = <<>>
       THEN /\ calls' = Append(calls, OnErrorCall("empty"))
            /\ toolId' = toolId
       ELSE /\ toolId' = IF toolId = <<>> THEN generateUuid ELSE toolId
            /\ calls' = Append(calls, OnFinalMessageCall(fullText, fullReasoning, {},
                           rawToolCallObjOfParamsStr(toolName, toolParamsStr, toolId')))
    /\ pc' = "done"
    /\ outcome' = "ended"
    /\ UNCHANGED << buildVars, family, reasoningField, capabilities, failure, fullText, fullReasoning, toolName,
                    toolParamsStr, snapshot, nSetAborter, nAbort, cancelAt, recv, divVars >>

GeminiStreamThrows ==
    /\ family = "gemini"
    /\ pc = "streaming"
    /\ \E error \in Errors : GeminiCatch(error)

\* ------------------------------------------------------------- Anthropic
StreamEvent(type, sub, text, name, id) ==
    [type |-> type, sub |-> sub, text |-> text, name |-> name, id |-> id]

AnthropicEvents ==
    { StreamEvent("content_block_start", "text", <<>>, <<>>, <<>>),
      StreamEvent("content_block_start", "thinking", <<>>, <<>>, <<>>),
      StreamEvent("content_block_start", "redacted_thinking", <<>>, <<>>, <<>>),
      StreamEvent("content_block_start", "tool_use", <<>>, <<"f">>, <<"t1">>),
      StreamEvent("content_block_start", "tool_use", <<>>, <<"g">>, <<"t2">>),
      StreamEvent("content_block_delta", "text_delta", <<"a">>, <<>>, <<>>),
      StreamEvent("content_block_delta", "thinking_delta", <<"r">>, <<>>, <<>>),
      StreamEvent("content_block_delta", "input_json_delta", <<"{", "a:1", "}">>, <<>>, <<>>),
      StreamEvent("content_block_delta", "input_json_delta", <<"[", "]">>, <<>>, <<>>),
      StreamEvent("content_block_delta", "signature_delta", <<>>, <<>>, <<>>),
      StreamEvent("content_block_stop", "none", <<>>, <<>>, <<>>) }

\* the block starts and deltas the handler has a branch for
Handled ==
    { "text", "thinking", "redacted_thinking", "tool_use",
      "text_delta", "thinking_delta", "input_json_delta" }

\* the block type a delta belongs to
BlockOfDelta(sub) ==
    IF sub = "text_delta" THEN "text"
    ELSE IF sub \in {"thinking_delta", "signature_delta"} THEN "thinking"
    ELSE "tool_use"

\* events the stream can deliver next: a delta follows the start of its block
EventAllowed(e) ==
    e.type = "content_block_delta" =>
        /\ snapshot # <<>>
        /\ snapshot[Len(snapshot)].type = BlockOfDelta(e.sub)

ContentBlock(type, name, id, json) == [type |-> type, name |-> name, id |-> id, json |-> json]

\* the stream's own accumulation of the message it will hand to 'finalMessage'
Accumulate(content, e) ==
    IF e.type = "content_block_start"
    THEN Append(content, ContentBlock(e.sub, e.name, e.id, <<>>))
    ELSE IF e.type = "content_block_delta" /\ e.sub = "input_json_delta"
    THEN [content EXCEPT ![Len(content)].json = @ \o e.text]
    ELSE content

\* input of a tool_use block of the final message
InputOf(block) == IF block.json = <<>> THEN EmptyObject ELSE JSONparse(block.json)

\* "\n\n"
BlankLine == << "\n\n" >>

\* mutant of StartBlock: the text of the block is appended with no separator
StartBlockNoSeparator(soFar, text) == soFar \o text

\* if (soFar) soFar += '\n\n'; soFar += text
StartBlock(soFar, text) ==
    (IF soFar # <<>> THEN soFar \o BlankLine ELSE soFar) \o text

\* anthropic.messages.stream(...), the handlers, _setAborter
AnthropicStart ==
    /\ family = "anthropic"
    /\ pc = "start"
    /\ nSetAborter' = nSetAborter + 1
    /\ pc' = "streaming"
    /\ UNCHANGED << buildVars, family, reasoningField, capabilities, failure, accVars, snapshot, calls,
                    nAbort, cancelAt, recv, outcome, divVars >>

\* stream.on('streamEvent', e => ...)
AnthropicStreamEvent ==
    /\ family = "anthropic"
    /\ pc = "streaming"
    /\ ~Cancelled
    /\ Len(recv) < MaxChunks
    /\ \E e \in AnthropicEvents :
        /\ EventAllowed(e)
        /\ snapshot' = Accumulate(snapshot, e)
        /\ IF e.type = "content_block_start" /\ e.sub = "text"
           THEN /\ fullText' = StartBlock(fullText, e.text)
                /\ UNCHANGED << fullReasoning, toolName, toolParamsStr >>
           ELSE IF e.type = "content_block_start" /\ e.sub = "thinking"
           THEN /\ fullReasoning' = StartBlock(fullReasoning, e.text)
                /\ UNCHANGED << fullText, toolName, toolParamsStr >>
           ELSE IF e.type = "content_block_start" /\ e.sub = "redacted_thinking"
           THEN /\ fullReasoning' = StartBlock(fullReasoning, << "[redacted_thinking]" >>)
                /\ UNCHANGED << fullText, toolName, toolParamsStr >>
           ELSE IF e.type = "content_block_start" /\ e.sub = "tool_use"
           THEN /\ toolName' = toolName \o e.name
                /\ UNCHANGED << fullText, fullReasoning, toolParamsStr >>
           ELSE IF e.type = "content_block_delta" /\ e.sub = "text_delta"
           THEN /\ fullText' = AccumulateText(fullText, e.text)
                /\ UNCHANGED << fullReasoning, toolName, toolParamsStr >>
           ELSE IF e.type = "content_block_delta" /\ e.sub = "thinking_delta"
           THEN /\ fullReasoning' = fullReasoning \o e.text
                /\ UNCHANGED << fullText, toolName, toolParamsStr >>
           ELSE IF e.type = "content_block_delta" /\ e.sub = "input_json_delta"
           THEN /\ toolParamsStr' = toolParamsStr \o e.text
                /\ UNCHANGED << fullText, fullReasoning, toolName >>
           ELSE UNCHANGED << fullText, fullReasoning, toolName, toolParamsStr >>
        /\ calls' = IF e.sub \in Handled
                    THEN Append(calls, OnTextCall(fullText', fullReasoning',
                                                  PartialToolCall(toolName', <<"dummy">>)))
                    ELSE calls
        /\ recv' = Append(recv,
             [kind |-> IF e.sub = "text_delta" THEN "text"
                       ELSE IF e.sub = "text" THEN "block"
                       ELSE IF e.sub \notin Handled THEN "silent"
                       ELSE "other",
              text |-> IF e.sub \in {"text", "text_delta"} THEN e.text ELSE <<>>,
              event |-> e])
    /\ UNCHANGED << buildVars, family, reasoningField, capabilities, failure, pc, toolId, nSetAborter, nAbort,
                    cancelAt, outcome, divVars >>

IsReasoningBlock(c) == c.type \in {"thinking", "redacted_thinking"}

IsToolUseBlock(c) == c.type = "tool_use"

\* mutant of AnthropicFinalMessage: the toolCall is rebuilt from the name and
\* the argument text the handlers accumulated
AnthropicFinalMessageFromAccumulators ==
    /\ family = "anthropic"
    /\ pc = "streaming"
    /\ ~Cancelled
    /\ \A i \in 1..Len(snapshot) : InputOf(snapshot[i]).type # "invalid"
    /\ calls' = Append(calls, OnFinalMessageCall(fullText, fullReasoning,
                           {SelectSeq(snapshot, IsReasoningBlock)},
                           rawToolCallObjOfParamsStr(toolName, toolParamsStr, <<"dummy">>)))
    /\ pc' = "done"
    /\ outcome' = "ended"
    /\ UNCHANGED << buildVars, family, reasoningField, capabilities, failure, accVars, snapshot, nSetAborter,
                    nAbort, cancelAt, recv, divVars >>

\* stream.on('finalMessage', response => ...): the stream hands over the
\* message it accumulated; every tool_use input in it is parsed JSON
AnthropicFinalMessage ==
    /\ family = "anthropic"
    /\ pc = "streaming"
    /\ ~Cancelled
    /\ \A i \in 1..Len(snapshot) : InputOf(snapshot[i]).type # "invalid"
    /\ LET anthropicReasoning == SelectSeq(snapshot, IsReasoningBlock)
           tools == SelectSeq(snapshot, IsToolUseBlock)
           toolCall == IF tools = <<>> THEN {}
                       ELSE rawToolCallObjOfAnthropicParams(
                              [id |-> tools[1].id, name |-> tools[1].name,
                               input |-> InputOf(tools[1])])
       IN calls' = Append(calls, OnFinalMessageCall(fullText, fullReasoning,
                                    {anthropicReasoning}, toolCall))
    /\ pc' = "done"
    /\ outcome' = "ended"
    /\ UNCHANGED << buildVars, family, reasoningField, capabilities, failure, accVars, snapshot, nSetAborter,
                    nAbort, cancelAt, recv, divVars >>

AnthropicErrorMessage(error) ==
    IF error.status = 401 THEN "invalidApiKey" ELSE "generic"

\* stream.on('error', error => ...)
AnthropicError ==
    /\ family = "anthropic"
    /\ pc = "streaming"
    /\ \E error \in Errors :
         /\ calls' = Append(calls, OnErrorCall(AnthropicErrorMessage(error)))
         /\ failure' = {error}
    /\ pc' = "done"
    /\ outcome' = "failed"
    /\ UNCHANGED << buildVars, family, reasoningField, capabilities, accVars, snapshot, nSetAborter,
                    nAbort, cancelAt, recv, divVars >>

\* stream.controller.abort(): the stream emits 'abort', for which no handler
\* is registered, and ends
AnthropicAborted ==
    /\ family = "anthropic"
    /\ pc = "streaming"
    /\ Cancelled
    /\ pc' = "done"
    /\ outcome' = "aborted"
    /\ UNCHANGED << buildVars, family, reasoningField, capabilities, failure, accVars, snapshot, calls, nSetAborter,
                    nAbort, cancelAt, recv, divVars >>

\* -------------------------------------------------------------- Division
\* appendText(text) for each text of texts, in order: fullText grows and
\* every string is one onText({ fullText, fullReasoning: '' })
TextAfter(texts, n) ==
    LET F[i \in 0..n] == IF i = 0 THEN fullText ELSE F[i - 1] \o texts[i]
    IN F[n]

appendText(texts) ==
    /\ fullText' = TextAfter(texts, Len(texts))
    /\ recv' = recv \o [i \in 1..Len(texts) |-> [kind |-> "text", text |-> texts[i]]]

\* mutant of EmittedBy: an emission carries the appended string only
EmittedByFragment(texts) ==
    [i \in 1..Len(texts) |-> OnTextCall(texts[i], <<>>, {})]

EmittedBy(texts) ==
    [i \in 1..Len(texts) |-> OnTextCall(TextAfter(texts, i), <<>>, {})]

\* what callDivisionGenerate returns: an error (also for a rejected or aborted
\* fetch, which it catches) or an output in which savedFiles code blocks were saved
GenerateResult(error, savedFiles) == [error |-> error, savedFiles |-> savedFiles]

GenerateResults ==
    IF Cancelled THEN { GenerateResult(TRUE, 0) }
    ELSE { GenerateResult(TRUE, 0), GenerateResult(FALSE, 0), GenerateResult(FALSE, 1) }

\* the path of the code block of a generated output
SavedPath == "p"

\* sf.action === 'created' ? 'Created' : 'Edited', where the action is
\* 'created' unless fs.existsSync(fullPath) held when the block was saved
FileLabel(existed) == IF existed THEN << "Edited" >> ELSE << "Created" >>

\* the strings appended for a generate result
ResultTexts(result, header) ==
    IF result.error THEN << <<"error">> >>
    ELSE << <<"generated">>, <<"output">> >>
         \o (IF result.savedFiles > 0
             THEN header \o << FileLabel(SavedPath \in files), <<"path">> >>
             ELSE <<>>)

\* saveCodeBlocksFromOutput: the file of the code block exists afterwards
FilesAfter(result) ==
    IF ~result.error /\ result.savedFiles > 0 THEN files \cup {SavedPath} ELSE files

\* a task of the create response, with what the loop has done for it so far:
\* the results of its /api/generate calls, the status of each PATCH
\* /api/tasks/{id} it issued and how each of these PATCH requests settled
Task(i) == [id |-> i, reason |-> (i % 2 = 1),
            generated |-> <<>>, patched |-> <<>>, settled |-> <<>>]

\* the strings appended at the top of iteration i of the task loop
TaskTexts(i) ==
    << <<"task">>, <<"description">> >>
    \o (IF Task(i).reason THEN << <<"reason">> >> ELSE <<>>)
    \o << <<"running">> >>

DoneTexts == << <<"all tasks done">> >>

\* responses of POST /api/tasks/create
CreateResponse(ok, body, n) == [ok |-> ok, body |-> body, n |-> n]

CreateResponses ==
    { CreateResponse(ok, body, 0) : ok \in BOOLEAN, body \in {"empty", "invalid", "error"} }
    \cup { CreateResponse(TRUE, "tasks", n) : n \in 0..MaxTasks }

\* mutant of DivisionFinal: the terminal message drops the accumulated text
DivisionFinalEmpty(text) ==
    OnFinalMessageCall(<<>>, <<>>, {}, {})

DivisionFinal(text) ==
    OnFinalMessageCall(text, <<>>, {}, {})

\* sendDivisionAPIChat up to its first await
DivisionStart ==
    /\ family = "division"
    /\ pc = "start"
    /\ nSetAborter' = nSetAborter + 1
    /\ LET texts == IF selectedModel = "direct"
                    THEN << <<"direct model">>, <<"requesting">> >>
                    ELSE << <<"phase 1">>, <<"requesting">> >>
       IN /\ appendText(texts)
          /\ calls' = calls \o EmittedBy(texts)
    /\ pc' = IF selectedModel = "direct" THEN "directGenerate" ELSE "tasksCreate"
    /\ UNCHANGED << buildVars, family, reasoningField, capabilities, failure, fullReasoning, toolName, toolId,
                    toolParamsStr, snapshot, nAbort, cancelAt, outcome, divVars >>

\* direct model mode: callDivisionGenerate has returned
DivisionDirectReturns ==
    /\ family = "division"
    /\ pc = "directGenerate"
    /\ \E result \in GenerateResults :
         LET texts == ResultTexts(result, << <<"file operations">> >>)
         IN /\ appendText(texts)
            /\ calls' = Append(calls \o EmittedBy(texts), DivisionFinal(fullText'))
            /\ files' = FilesAfter(result)
    /\ pc' = "done"
    /\ outcome' = "ended"
    /\ UNCHANGED << buildVars, family, reasoningField, capabilities, failure, fullReasoning, toolName, toolId,
                    toolParamsStr, snapshot, nSetAborter, nAbort, cancelAt,
                    selectedModel, tasks, taskIdx >>

\* catch (error) of sendDivisionAPIChat
DivisionCatch(isAbortError) ==
    /\ calls' = Append(calls, IF isAbortError THEN DivisionFinal(<<>>)
                              ELSE OnErrorCall("generic"))
    /\ pc' = "done"
    /\ outcome' = IF isAbortError THEN "aborted" ELSE "failed"
    /\ failure' = {Thrown(IF isAbortError THEN "AbortError" ELSE "fetch failed")}
    /\ UNCHANGED << buildVars, family, reasoningField, capabilities, accVars, snapshot, nSetAborter,
                    nAbort, cancelAt, recv, divVars >>

\* the fetch of /api/tasks/create rejects: AbortError when the signal is aborted
DivisionCreateRejects ==
    /\ family = "division"
    /\ pc = "tasksCreate"
    /\ DivisionCatch(Cancelled)

\* /api/tasks/create has answered
DivisionCreateReturns ==
    /\ family = "division"
    /\ pc = "tasksCreate"
    /\ ~Cancelled
    /\ \E r \in CreateResponses :
         LET notOk == IF r.ok THEN <<>> ELSE << <<"http error">>, <<"body">> >>
             texts ==
               notOk \o
               (IF r.body = "empty" THEN << <<"empty response">> >>
                ELSE IF r.body = "invalid" THEN <<>>
                ELSE IF r.body = "error"
                THEN << <<"error">>, <<"fallback">>, <<"asking">> >>
                ELSE << <<"leader">>, <<"session">>, <<"task count">>,
                        <<"phase 2">>, <<"table head">>, <<"table rule">> >>
                     \o [i \in 1..r.n |-> <<"row">>]
                     \o << <<"\n">>, <<"phase 3">> >>
                     \o (IF r.n = 0 THEN DoneTexts ELSE TaskTexts(1)))
         IN /\ appendText(texts)
            /\ calls' = (calls \o EmittedBy(texts)) \o
                 (IF r.body = "empty" \/ (r.body = "tasks" /\ r.n = 0)
                  THEN << DivisionFinal(fullText') >>
                  ELSE IF r.body = "invalid" THEN << OnErrorCall("generic") >>
                  ELSE <<>>)
            /\ pc' = IF r.body = "error" THEN "fallbackGenerate"
                     ELSE IF r.body = "tasks" /\ r.n > 0 THEN "taskGenerate"
                     ELSE "done"
            /\ outcome' = IF r.body = "invalid" THEN "failed"
                          ELSE IF pc' = "done" THEN "ended" ELSE outcome
            /\ tasks' = [i \in 1..r.n |-> Task(i)]
            /\ taskIdx' = IF r.n > 0 THEN 1 ELSE 0
    /\ UNCHANGED << buildVars, family, reasoningField, capabilities, failure, fullReasoning, toolName, toolId,
                    toolParamsStr, snapshot, nSetAborter, nAbort, cancelAt, selectedModel,
                    files >>

\* fallback: callDivisionGenerate has returned
DivisionFallbackReturns ==
    /\ family = "division"
    /\ pc = "fallbackGenerate"
    /\ \E result \in GenerateResults :
         LET texts == IF result.error THEN << <<"error">> >> ELSE << <<"output">> >>
         IN /\ appendText(texts)
            /\ calls' = Append(calls \o EmittedBy(texts), DivisionFinal(fullText'))
    /\ pc' = "done"
    /\ outcome' = "ended"
    /\ UNCHANGED << buildVars, family, reasoningField, capabilities, failure, fullReasoning, toolName, toolId,
                    toolParamsStr, snapshot, nSetAborter, nAbort, cancelAt, divVars >>

\* mutant of DivisionTaskReturns: the PATCH always reports 'completed'
DivisionTaskReturnsCompleted ==
    /\ family = "division"
    /\ pc = "taskGenerate"
    /\ \E result \in GenerateResults :
         LET texts == ResultTexts(result, << <<"\n">> >>)
         IN /\ appendText(texts)
            /\ calls' = calls \o EmittedBy(texts)
            /\ files' = FilesAfter(result)
            /\ tasks' = [tasks EXCEPT
                 ![taskIdx].generated = Append(@, result),
                 ![taskIdx].patched = Append(@, "completed")]
    /\ pc' = "taskPatch"
    /\ UNCHANGED << buildVars, family, reasoningField, capabilities, failure, fullReasoning, toolName, toolId,
                    toolParamsStr, snapshot, nSetAborter, nAbort, cancelAt, outcome,
                    selectedModel, taskIdx >>

\* task loop: callDivisionGenerate has returned, the PATCH is issued with
\* status 'failed' in the result.error branch and 'completed' in the other
DivisionTaskReturns ==
    /\ family = "division"
    /\ pc = "taskGenerate"
    /\ \E result \in GenerateResults :
         LET texts == ResultTexts(result, << <<"\n">> >>)
         IN /\ appendText(texts)
            /\ calls' = calls \o EmittedBy(texts)
            /\ files' = FilesAfter(result)
            /\ tasks' = [tasks EXCEPT
                 ![taskIdx].generated = Append(@, result),
                 ![taskIdx].patched =
                     Append(@, IF result.error THEN "failed" ELSE "completed")]
    /\ pc' = "taskPatch"
    /\ UNCHANGED << buildVars, family, reasoningField, capabilities, failure, fullReasoning, toolName, toolId,
                    toolParamsStr, snapshot, nSetAborter, nAbort, cancelAt, outcome,
                    selectedModel, taskIdx >>

\* another Division request running at the same time in the same workspace
\* folder saves a code block for the same path (fs.writeFileSync)
PeerRequestSaves ==
    /\ family = "division"
    /\ pc \notin {"start", "done"}
    /\ SavedPath \notin files
    /\ files' = files \cup {SavedPath}
    /\ UNCHANGED << buildVars, family, reasoningField, capabilities, failure, pc, accVars, snapshot,
                    calls, nSetAborter, nAbort, cancelAt, recv, outcome,
                    selectedModel, tasks, taskIdx >>

\* task loop: the PATCH has settled, with a rejection (the only outcome once
\* the signal is aborted) caught and ignored; next iteration, or the end of
\* the loop
DivisionPatchSettles ==
    /\ family = "division"
    /\ pc = "taskPatch"
    /\ LET last == taskIdx = Len(tasks)
           texts == IF last THEN DoneTexts ELSE TaskTexts(taskIdx + 1)
       IN /\ appendText(texts)
          /\ calls' = (calls \o EmittedBy(texts)) \o
                      (IF last THEN << DivisionFinal(fullText') >> ELSE <<>>)
          /\ pc' = IF last THEN "done" ELSE "taskGenerate"
          /\ outcome' = IF last THEN "ended" ELSE outcome
          /\ taskIdx' = IF last THEN taskIdx ELSE taskIdx + 1
    /\ \E rejected \in (IF Cancelled THEN {TRUE} ELSE BOOLEAN) :
         tasks' = [tasks EXCEPT ![taskIdx].settled =
                       Append(@, IF rejected THEN "rejected" ELSE "ok")]
    /\ UNCHANGED << buildVars, family, reasoningField, capabilities, failure, fullReasoning, toolName, toolId,
                    toolParamsStr, snapshot, nSetAborter, nAbort, cancelAt,
                    selectedModel, files >>

Next ==
    \/ Abort
    \/ OpenAIClientFails
    \/ OpenAICreate
    \/ OpenAIStreamOpens
    \/ OpenAICreateRejects
    \/ OpenAIChunk
    \/ OpenAIOnFinal
    \/ OpenAIStreamThrows
    \/ GeminiCreate
    \/ GeminiStreamOpens
    \/ GeminiCreateRejects
    \/ GeminiChunk
    \/ GeminiOnFinal
    \/ GeminiStreamThrows
    \/ AnthropicStart
    \/ AnthropicStreamEvent
    \/ AnthropicFinalMessage
    \/ AnthropicError
    \/ AnthropicAborted
    \/ DivisionStart
    \/ DivisionDirectReturns
    \/ DivisionCreateRejects
    \/ DivisionCreateReturns
    \/ DivisionFallbackReturns
    \/ DivisionTaskReturns
    \/ DivisionPatchSettles
    \/ PeerRequestSaves

Spec == Init /\ [][Next]_vars

\* ------------------------------------- fill-in-middle and list requests
FIMFamilies == {"openaiFIM", "mistralFIM", "ollamaFIM"}

ListFamilies == {"openaiList", "ollamaList"}

\* the model name of the request (modelName_)
Requested == "m"

InitOps ==
    /\ family \in FIMFamilies \cup ListFamilies
    /\ capabilities \in (IF family \in {"openaiFIM", "mistralFIM"}
                          THEN { Capabilities(m, b) : m \in {"m", "m2"}, b \in BOOLEAN }
                          ELSE { Capabilities(Requested, b) : b \in BOOLEAN })
    /\ reasoningField = FALSE
    /\ pc = "start"
    /\ fullText = <<>>
    /\ fullReasoning = <<>>
    /\ toolName = <<>>
    /\ toolId = <<>>
    /\ toolParamsStr = <<>>
    /\ snapshot = <<>>
    /\ calls = <<>>
    /\ nSetAborter = 0
    /\ nAbort = 0
    /\ cancelAt = -1
    /\ recv = <<>>
    /\ outcome = "none"
    /\ selectedModel = "none"
    /\ tasks = <<>>
    /\ taskIdx = 0
    /\ failure = {}
    /\ files = {}
    /\ allowedTools = {}
    /\ specialToolFormat = {}
    /\ payload = <<>>
    /\ reasoningIO = NoReasoningIO
    /\ installed = {}
    /\ providerName = "none"
    /\ operation = "none"
    /\ implementation = "none"
    /\ rawFilePath = <<>>
    /\ service = <<>>

\* what a fill-in-middle or list request leaves alone
opsUnused == << buildVars, family, reasoningField, capabilities, fullReasoning, toolName, toolId,
               toolParamsStr, snapshot, divVars >>

\* `Model ${modelName} does not support FIM.` /
\* `Model ${modelName_} (${modelName}) does not support FIM.`
UnsupportedFIMMessage(modelName_, modelName) ==
    IF modelName = modelName_
    THEN << "Model", modelName, "does not support FIM." >>
    ELSE << "Model", modelName_, "(", modelName, ")", "does not support FIM." >>

\* if (!supportsFIM) { onError(...); return }
FIMUnsupported ==
    /\ family \in {"openaiFIM", "mistralFIM"}
    /\ pc = "start"
    /\ ~capabilities.supportsFIM
    /\ calls' = Append(calls,
                       OnErrorCall(UnsupportedFIMMessage(Requested, capabilities.modelName)))
    /\ pc' = "done"
    /\ outcome' = "unsupported"
    /\ UNCHANGED << opsUnused, fullText, nSetAborter, nAbort, cancelAt, recv, failure >>

\* await newOpenAICompatibleSDK(...) throws: the async function rejects
OpenAIFIMClientFails ==
    /\ family = "openaiFIM"
    /\ pc = "start"
    /\ capabilities.supportsFIM
    /\ pc' = "done"
    /\ outcome' = "rejected"
    /\ failure' = {Thrown("configuration")}
    /\ UNCHANGED << opsUnused, fullText, calls, nSetAborter, nAbort, cancelAt, recv >>

\* newOllamaSDK throws (the endpoint is empty): sendOllamaFIM throws
OllamaFIMClientFails ==
    /\ family = "ollamaFIM"
    /\ pc = "start"
    /\ pc' = "done"
    /\ outcome' = "thrown"
    /\ failure' = {Thrown("configuration")}
    /\ UNCHANGED << opsUnused, fullText, calls, nSetAborter, nAbort, cancelAt, recv >>

\* the completion call is issued: openai.completions.create, fimComplete,
\* ollama.generate (sendOllamaFIM does not look at the capabilities)
FIMCreate ==
    /\ family \in FIMFamilies
    /\ pc = "start"
    /\ family \in {"openaiFIM", "mistralFIM"} => capabilities.supportsFIM
    /\ pc' = "creating"
    /\ UNCHANGED << opsUnused, fullText, calls, nSetAborter, nAbort, cancelAt, recv,
                    outcome, failure >>

\* texts a completion can carry
Completions == { <<>>, << "a" >>, << "b" >> }

\* .then of openai.completions.create
OpenAIFIMReturns ==
    /\ family = "openaiFIM"
    /\ pc = "creating"
    /\ \E text \in Completions :
         /\ fullText' = text
         /\ calls' = Append(calls, OnFinalMessageCall(text, <<>>, {}, {}))
    /\ pc' = "done"
    /\ outcome' = "ended"
    /\ UNCHANGED << opsUnused, nSetAborter, nAbort, cancelAt, recv, failure >>

\* .then of fimComplete: the result is ok with its content, or not ok with
\* the failure it reports
MistralFIMReturns ==
    /\ family = "mistralFIM"
    /\ pc = "creating"
    /\ \/ \E text \in Completions :
            /\ fullText' = text
            /\ calls' = Append(calls, OnFinalMessageCall(text, <<>>, {}, {}))
            /\ failure' = failure
       \/ \E error \in Errors :
            /\ fullText' = <<>>
            /\ calls' = Append(calls, OnFinalMessageCall(<<>>, <<>>, {}, {}))
            /\ failure' = {error}
    /\ pc' = "done"
    /\ outcome' = "ended"
    /\ UNCHANGED << opsUnused, nSetAborter, nAbort, cancelAt, recv >>

\* .catch of openai.completions.create
OpenAIFIMRejects ==
    /\ family = "openaiFIM"
    /\ pc = "creating"
    /\ \E error \in Errors : OpenAICatch(error)

\* .catch(error => onError({ message: error + '', fullError: error }))
FIMRejects ==
    /\ family \in {"mistralFIM", "ollamaFIM"}
    /\ pc \in {"creating", "streaming"}
    /\ \E error \in Errors :
         /\ calls' = Append(calls, OnErrorCall("generic"))
         /\ failure' = {error}
    /\ pc' = "done"
    /\ outcome' = "failed"
    /\ UNCHANGED << opsUnused, fullText, nSetAborter, nAbort, cancelAt, recv >>

\* .then of ollama.generate: _setAborter(() => stream.abort())
OllamaFIMStreamOpens ==
    /\ family = "ollamaFIM"
    /\ pc = "creating"
    /\ nSetAborter' = nSetAborter + 1
    /\ pc' = "streaming"
    /\ UNCHANGED << opsUnused, fullText, calls, nAbort, cancelAt, recv, outcome, failure >>

\* one iteration of  for await (const chunk of stream): no onText
OllamaFIMChunk ==
    /\ family = "ollamaFIM"
    /\ pc = "streaming"
    /\ ~Cancelled
    /\ Len(recv) < MaxChunks
    /\ \E text \in Completions :
         /\ fullText' = AccumulateText(fullText, text)
         /\ recv' = Append(recv, [kind |-> "silent", text |-> text])
    /\ UNCHANGED << opsUnused, pc, calls, nSetAborter, nAbort, cancelAt, outcome, failure >>

\* the stream is exhausted
OllamaFIMEnds ==
    /\ family = "ollamaFIM"
    /\ pc = "streaming"
    /\ ~Cancelled
    /\ calls' = Append(calls, OnFinalMessageCall(fullText, <<>>, {}, {}))
    /\ pc' = "done"
    /\ outcome' = "ended"
    /\ UNCHANGED << opsUnused, fullText, nSetAborter, nAbort, cancelAt, recv, failure >>

\* onSuccess({ models })
OnSuccessCall ==
    [cb |-> "onSuccess", fullText |-> <<>>, fullReasoning |-> <<>>,
     toolCall |-> {}, anthropicReasoning |-> {}, message |-> "none"]

\* mutant of ListClientFails: the client is built outside the try block
ListClientFailsOutsideTry ==
    /\ family \in ListFamilies
    /\ pc = "start"
    /\ pc' = "done"
    /\ outcome' = "rejected"
    /\ failure' = {Thrown("configuration")}
    /\ UNCHANGED << opsUnused, fullText, calls, nSetAborter, nAbort, cancelAt, recv >>

\* try { newOpenAICompatibleSDK / newOllamaSDK throws } catch (error) { onError }
ListClientFails ==
    /\ family \in ListFamilies
    /\ pc = "start"
    /\ calls' = Append(calls, OnErrorCall("generic"))
    /\ pc' = "done"
    /\ outcome' = "failed"
    /\ failure' = {Thrown("configuration")}
    /\ UNCHANGED << opsUnused, fullText, nSetAborter, nAbort, cancelAt, recv >>

\* openai.models.list() / ollama.list() is issued
ListCreate ==
    /\ family \in ListFamilies
    /\ pc = "start"
    /\ pc' = "listing"
    /\ UNCHANGED << opsUnused, fullText, calls, nSetAborter, nAbort, cancelAt, recv,
                    outcome, failure >>

\* while (response.hasNextPage()) models.push(...(await response.getNextPage()).data)
OpenAIListNextPage ==
    /\ family = "openaiList"
    /\ pc = "listing"
    /\ Len(recv) < MaxChunks
    /\ recv' = Append(recv, [kind |-> "silent", text |-> <<>>])
    /\ UNCHANGED << opsUnused, pc, fullText, calls, nSetAborter, nAbort, cancelAt,
                    outcome, failure >>

\* the last page is in: onSuccess({ models })
ListReturns ==
    /\ family \in ListFamilies
    /\ pc = "listing"
    /\ calls' = Append(calls, OnSuccessCall)
    /\ pc' = "done"
    /\ outcome' = "ended"
    /\ UNCHANGED << opsUnused, fullText, nSetAborter, nAbort, cancelAt, recv, failure >>

\* .catch((error) => onError({ error: error + '' })): list() or getNextPage() rejects
ListRejects ==
    /\ family \in ListFamilies
    /\ pc = "listing"
    /\ \E error \in Errors :
         /\ calls' = Append(calls, OnErrorCall("generic"))
         /\ failure' = {error}
    /\ pc' = "done"
    /\ outcome' = "failed"
    /\ UNCHANGED << opsUnused, fullText, nSetAborter, nAbort, cancelAt, recv >>

NextOps ==
    \/ Abort
    \/ FIMUnsupported
    \/ OpenAIFIMClientFails
    \/ OllamaFIMClientFails
    \/ FIMCreate
    \/ OpenAIFIMReturns
    \/ MistralFIMReturns
    \/ OpenAIFIMRejects
    \/ FIMRejects
    \/ OllamaFIMStreamOpens
    \/ OllamaFIMChunk
    \/ OllamaFIMEnds
    \/ ListClientFails
    \/ ListCreate
    \/ OpenAIListNextPage
    \/ ListReturns
    \/ ListRejects

SpecOps == InitOps /\ [][NextOps]_vars

(***************************************************************************)
(* The request builders of the three chat implementations that declare     *)
(* tools.  A mapping of tools is the sequence of its names in key order;   *)
(* an object is a function from its keys; undefined is the empty set and   *)
(* a defined value v the set {v}.                                          *)
(***************************************************************************)

BuildFamilies == {"openai", "anthropic", "gemini"}

\* the results of availableTools: undefined, or a mapping of zero, one or
\* two tools
ToolMappings ==
    {{}} \cup { {m} : m \in {<<>>, <<"t1">>, <<"t2">>, <<"t1", "t2">>, <<"t2", "t1">>} }

ToolFormats == {{}, {"openai-style"}, {"anthropic-style"}, {"gemini-style"}}

\* allowedTools[t]: the name of the tool and, for each declared parameter, its
\* one-line description
ToolInfo(name) ==
    [name |-> name,
     description |-> "d",
     params |-> [p \in (IF name = "t1" THEN {"a"} ELSE {"a", "b"}) |->
                   [description |-> "d"]]]

\* { ...params[key], type: 'string' } for every key of params
paramsWithType(params) == [key \in DOMAIN params |-> [type |-> "string"] @@ params[key]]

\* paramsWithType is computed and properties is given params
toOpenAICompatibleTool(toolInfo) ==
    [type |-> "function",
     function |-> [name |-> toolInfo.name,
                   description |-> toolInfo.description,
                   parameters |-> [type |-> "object",
                                   properties |-> toolInfo.params]]]

toAnthropicTool(toolInfo) ==
    [name |-> toolInfo.name,
     description |-> toolInfo.description,
     input_schema |-> [type |-> "object",
                       properties |-> paramsWithType(toolInfo.params)]]

toGeminiFunctionDecl(toolInfo) ==
    [name |-> toolInfo.name,
     description |-> toolInfo.description,
     parameters |-> [type |-> "OBJECT",
                     properties |-> [key \in DOMAIN toolInfo.params |->
                                       [type |-> "STRING",
                                        description |-> toolInfo.params[key].description]]]]

\* mutant of openAITools: an empty mapping is converted like any other
openAIToolsNoEmptyCheck(allowed) ==
    IF allowed = {} THEN {}
    ELSE { LET tools == CHOOSE m \in allowed : TRUE
           IN [i \in 1..Len(tools) |-> toOpenAICompatibleTool(ToolInfo(tools[i]))] }

\* null (the empty set) when no tool is allowed, else the converted list
openAITools(allowed) ==
    IF allowed = {} \/ allowed = {<<>>} THEN {}
    ELSE { LET tools == CHOOSE m \in allowed : TRUE
           IN [i \in 1..Len(tools) |-> toOpenAICompatibleTool(ToolInfo(tools[i]))] }

anthropicTools(allowed) ==
    IF allowed = {} \/ allowed = {<<>>} THEN {}
    ELSE { LET tools == CHOOSE m \in allowed : TRUE
           IN [i \in 1..Len(tools) |-> toAnthropicTool(ToolInfo(tools[i]))] }

\* one GeminiTool holding all the function declarations
geminiTools(allowed) ==
    IF allowed = {} \/ allowed = {<<>>} THEN {}
    ELSE { << [functionDeclarations |->
                  LET tools == CHOOSE m \in allowed : TRUE
           IN [i \in 1..Len(tools) |-> toGeminiFunctionDecl(ToolInfo(tools[i]))]] >> }

\* potentialTools && specialToolFormat === style ? { tools: potentialTools, ... } : {}
nativeToolsObj(potentialTools, style, extra) ==
    IF potentialTools # {} /\ specialToolFormat = {style}
    THEN [tools |-> potentialTools] @@ extra
    ELSE <<>>

\* potentialTools && specialToolFormat === 'gemini-style' ? potentialTools : undefined
toolConfig(potentialTools) ==
    IF potentialTools # {} /\ specialToolFormat = {"gemini-style"}
    THEN potentialTools ELSE {}

\* the request as the client serialises it: a key whose value is undefined
\* is not sent, a defined value is sent as it is
Sent(object) ==
    LET keys == { k \in DOMAIN object : object[k] # {} }
    IN [k \in keys |-> CHOOSE v \in object[k] : TRUE]

\* the pair extractXMLToolsWrapper returns: the caller's pair when no tool is
\* enabled for the interaction, else the pair that parses tool calls
extractXMLToolsWrapper(allowed) ==
    IF allowed = {} \/ allowed = {<<>>} THEN {} ELSE {"xmlTools"}

\* mutant of InstallXMLTools: the native tool format is not looked at
InstallXMLToolsUnconditionally == extractXMLToolsWrapper(allowedTools)

\* if (!specialToolFormat) { ... = extractXMLToolsWrapper(...) }
InstallXMLTools ==
    IF specialToolFormat = {} THEN extractXMLToolsWrapper(allowedTools) ELSE {}

\* if (manuallyParseReasoning) { ... = extractReasoningWrapper(...) }
InstallReasoning ==
    IF /\ reasoningIO.needsManualParse
       /\ reasoningIO.canIOReasoning
       /\ reasoningIO.openSourceThinkTags
    THEN {"reasoning"} ELSE {}

InitBuild ==
    /\ family \in BuildFamilies
    /\ allowedTools \in ToolMappings
    /\ specialToolFormat \in ToolFormats
    /\ payload = <<>>
    /\ reasoningIO \in (IF family = "openai" THEN ReasoningIO ELSE {NoReasoningIO})
    /\ installed = {}
    /\ providerName = "none"
    /\ operation = "none"
    /\ implementation = "none"
    /\ rawFilePath = <<>>
    /\ service = <<>>
    /\ capabilities = Capabilities("m", FALSE)
    /\ reasoningField = FALSE
    /\ pc = "start"
    /\ fullText = <<>>
    /\ fullReasoning = <<>>
    /\ toolName = <<>>
    /\ toolId = <<>>
    /\ toolParamsStr = <<>>
    /\ snapshot = <<>>
    /\ calls = <<>>
    /\ nSetAborter = 0
    /\ nAbort = 0
    /\ cancelAt = -1
    /\ recv = <<>>
    /\ outcome = "none"
    /\ selectedModel = "none"
    /\ tasks = <<>>
    /\ taskIdx = 0
    /\ failure = {}
    /\ files = {}

buildUnused == << family, reasoningField, capabilities, accVars, snapshot, calls,
                 nSetAborter, nAbort, cancelAt, recv, outcome, divVars, failure,
                 allowedTools, specialToolFormat, reasoningIO,
                 providerName, operation, implementation, rawFilePath, service >>

\* _sendOpenAICompatibleChat up to openai.chat.completions.create(options)
OpenAIBuild ==
    /\ family = "openai"
    /\ pc = "start"
    /\ payload' = Sent(nativeToolsObj(openAITools(allowedTools), "openai-style", <<>>)
                       @@ [model |-> {"m"}, stream |-> {TRUE}])
    /\ installed' = InstallReasoning \cup InstallXMLTools
    /\ pc' = "creating"
    /\ UNCHANGED buildUnused

\* sendAnthropicChat up to anthropic.messages.stream({...})
AnthropicBuild ==
    /\ family = "anthropic"
    /\ pc = "start"
    /\ \E system \in {{}, {"s"}} :
         payload' = Sent(nativeToolsObj(anthropicTools(allowedTools), "anthropic-style",
                                        [tool_choice |-> {"auto"}])
                         @@ [system |-> system, model |-> {"m"}, max_tokens |-> {"maxTokens"}])
    /\ installed' = InstallXMLTools
    /\ pc' = "creating"
    /\ UNCHANGED buildUnused

\* sendGeminiChat up to genAI.models.generateContentStream({...})
GeminiBuild ==
    /\ family = "gemini"
    /\ pc = "start"
    /\ \E system \in {{}, {"s"}} :
         payload' = Sent([model |-> {"m"},
                          systemInstruction |-> system,
                          tools |-> toolConfig(geminiTools(allowedTools))])
    /\ installed' = InstallXMLTools
    /\ pc' = "creating"
    /\ UNCHANGED buildUnused

NextBuild ==
    \/ OpenAIBuild
    \/ AnthropicBuild
    \/ GeminiBuild

SpecBuild == InitBuild /\ [][NextBuild]_vars

(***************************************************************************)
(* The dispatch table.  An implementation is named by the family it        *)
(* belongs to; null is "null".                                             *)
(***************************************************************************)

ChatOnly(chat) == [sendChat |-> chat, sendFIM |-> "null", list |-> "null"]

\* mutant of sendLLMMessageToProviderImplementation: ollama has no list key
TableWithoutOllamaList ==
    [p \in {"ollama"} |-> [sendChat |-> "openai", sendFIM |-> "ollamaFIM"]]
    @@ [p \in {"divisionAPI", "anthropic", "openAI", "xAI", "gemini", "mistral",
               "openAICompatible", "openRouter", "vLLM", "deepseek", "groq",
               "lmStudio", "liteLLM", "googleVertex", "microsoftAzure",
               "awsBedrock", "perplexity"} |-> ChatOnly("openai")]

sendLLMMessageToProviderImplementation ==
    [divisionAPI |-> ChatOnly("division"),
     anthropic |-> ChatOnly("anthropic"),
     openAI |-> ChatOnly("openai"),
     xAI |-> ChatOnly("openai"),
     gemini |-> ChatOnly("gemini"),
     mistral |-> [sendChat |-> "openai", sendFIM |-> "mistralFIM", list |-> "null"],
     ollama |-> [sendChat |-> "openai", sendFIM |-> "ollamaFIM", list |-> "ollamaList"],
     openAICompatible |-> [sendChat |-> "openai", sendFIM |-> "openaiFIM", list |-> "null"],
     openRouter |-> [sendChat |-> "openai", sendFIM |-> "openaiFIM", list |-> "null"],
     vLLM |-> [sendChat |-> "openai", sendFIM |-> "openaiFIM", list |-> "openaiList"],
     deepseek |-> ChatOnly("openai"),
     groq |-> ChatOnly("openai"),
     lmStudio |-> [sendChat |-> "openai", sendFIM |-> "openaiFIM", list |-> "openaiList"],
     liteLLM |-> [sendChat |-> "openai", sendFIM |-> "openaiFIM", list |-> "null"],
     googleVertex |-> ChatOnly("openai"),
     microsoftAzure |-> ChatOnly("openai"),
     awsBedrock |-> ChatOnly("openai"),
     perplexity |-> ChatOnly("openai")]

InitDispatch ==
    /\ providerName \in DOMAIN sendLLMMessageToProviderImplementation
    /\ operation \in {"sendChat", "sendFIM", "list"}
    /\ implementation = "none"
    /\ rawFilePath = <<>>
    /\ service = <<>>
    /\ family = "none"
    /\ allowedTools = {}
    /\ specialToolFormat = {}
    /\ payload = <<>>
    /\ reasoningIO = NoReasoningIO
    /\ installed = {}
    /\ capabilities = Capabilities("m", FALSE)
    /\ reasoningField = FALSE
    /\ pc = "start"
    /\ fullText = <<>>
    /\ fullReasoning = <<>>
    /\ toolName = <<>>
    /\ toolId = <<>>
    /\ toolParamsStr = <<>>
    /\ snapshot = <<>>
    /\ calls = <<>>
    /\ nSetAborter = 0
    /\ nAbort = 0
    /\ cancelAt = -1
    /\ recv = <<>>
    /\ outcome = "none"
    /\ selectedModel = "none"
    /\ tasks = <<>>
    /\ taskIdx = 0
    /\ failure = {}
    /\ files = {}

\* sendLLMMessageToProviderImplementation[providerName][operation]: the value
\* of the key, undefined when the entry has no such key
Dispatch ==
    /\ pc = "start"
    /\ providerName \in DOMAIN sendLLMMessageToProviderImplementation
    /\ LET entry == sendLLMMessageToProviderImplementation[providerName]
       IN implementation' = IF operation \in DOMAIN entry THEN entry[operation]
                            ELSE "undefined"
    /\ family' = IF implementation' \in {"null", "undefined"} THEN family
                 ELSE implementation'
    /\ pc' = "dispatched"
    /\ UNCHANGED << reasoningField, capabilities, accVars, snapshot, calls,
                    nSetAborter, nAbort, cancelAt, recv, outcome, divVars, failure,
                    allowedTools, specialToolFormat, payload, reasoningIO, installed,
                    providerName, operation, rawFilePath, service >>

NextDispatch == Dispatch

SpecDispatch == InitDispatch /\ [][NextDispatch]_vars

(***************************************************************************)
(* saveCodeBlocksFromOutput, for one annotated code block.  A path is the  *)
(* sequence of its segments, a segment a sequence of characters; the       *)
(* string of an absolute path puts "/" before every segment.               *)
(***************************************************************************)

\* workspaceFolderPath: "/w"
workspaceRoot == << <<"w">> >>

\* the annotation of the code block: absolute or relative, up to three
\* segments, among them "..", and "w2", which shares a prefix with the root
RawPaths ==
    LET Segments == { <<"w">>, <<"w", "2">>, <<"..">>, <<"f">> }
    IN { [absolute |-> a, segments |-> segs] :
           a \in BOOLEAN,
           segs \in UNION { [1..n -> Segments] : n \in 1..3 } }

RECURSIVE PathString(_)
PathString(segments) ==
    IF segments = <<>> THEN <<>>
    ELSE (<<"/">> \o Head(segments)) \o PathString(Tail(segments))

\* ".." removes the segment before it (none at the top)
RECURSIVE normalize(_)
normalize(segments) ==
    IF segments = <<>> THEN <<>>
    ELSE LET before == normalize(SubSeq(segments, 1, Len(segments) - 1))
             last == segments[Len(segments)]
         IN IF last # <<"..">> THEN Append(before, last)
            ELSE IF before = <<>> THEN <<>>
            ELSE SubSeq(before, 1, Len(before) - 1)

\* path.isAbsolute(rawFilePath) ? rawFilePath : path.join(workspaceRoot, rawFilePath)
fullPathOf(raw) ==
    IF raw.absolute THEN raw.segments ELSE normalize(workspaceRoot \o raw.segments)

InitSave ==
    /\ rawFilePath \in RawPaths
    /\ family = "division"
    /\ service = <<>>
    /\ providerName = "none"
    /\ operation = "none"
    /\ implementation = "none"
    /\ allowedTools = {}
    /\ specialToolFormat = {}
    /\ payload = <<>>
    /\ reasoningIO = NoReasoningIO
    /\ installed = {}
    /\ capabilities = Capabilities("m", FALSE)
    /\ reasoningField = FALSE
    /\ pc = "start"
    /\ fullText = <<>>
    /\ fullReasoning = <<>>
    /\ toolName = <<>>
    /\ toolId = <<>>
    /\ toolParamsStr = <<>>
    /\ snapshot = <<>>
    /\ calls = <<>>
    /\ nSetAborter = 0
    /\ nAbort = 0
    /\ cancelAt = -1
    /\ recv = <<>>
    /\ outcome = "none"
    /\ selectedModel = "none"
    /\ tasks = <<>>
    /\ taskIdx = 0
    /\ failure = {}
    /\ files = {}

\* one iteration of the while loop: the block is skipped unless the string of
\* fullPath starts with the string of the root; fs.writeFileSync writes the
\* file fullPath resolves to
SaveCodeBlock ==
    /\ pc = "start"
    /\ LET fullPath == PathString(fullPathOf(rawFilePath))
           root == PathString(workspaceRoot)
           startsWith == /\ Len(fullPath) >= Len(root)
                         /\ SubSeq(fullPath, 1, Len(root)) = root
       IN files' = IF startsWith THEN files \cup {normalize(fullPathOf(rawFilePath))}
                   ELSE files
    /\ pc' = "done"
    /\ UNCHANGED << buildVars, family, reasoningField, capabilities, failure, accVars,
                    snapshot, calls, nSetAborter, nAbort, cancelAt, recv, outcome,
                    selectedModel, tasks, taskIdx >>

NextSave == SaveCodeBlock

SpecSave == InitSave /\ [][NextSave]_vars

\* ------------------------------------------------ DivisionProjectService
\* most projects the list is let grow to, most operations in flight, and
\* most of them that are writes of a mutation
MaxProjects == 2

MaxPending == 2

MaxWrites == 1

\* a DivisionProjectConfig a caller passes to save or addProject
ProjectConfigs ==
    { [id |-> c[1], projectId |-> c[2], agents |-> << c >>] :
        c \in { << "a", "p" >>, << "b", "q" >> } }

\* defaultDivisionProjectsFile(): one project, whose generateUuid() id is "u",
\* and that project active; also the shape of every .division/agents.json:
\* activeProjectIds and activeProjectId are sets with the value when the key
\* is present, projectId is the key of the legacy single-project format
defaultDivisionProjectsFile ==
    [format |-> "multi",
     projects |-> << [id |-> "u", projectId |-> "", agents |-> << "default" >>] >>,
     activeProjectIds |-> { << "u" >> }, activeProjectId |-> {}, projectId |-> ""]

\* get projectConfig()
projectConfig(s) ==
    IF s.activeProjectIds = <<>> \/ s.activeProjectIds[1] = "" THEN {}
    ELSE LET firstActiveId == s.activeProjectIds[1]
             found == { i \in 1..Len(s.projects) : s.projects[i].id = firstActiveId }
         IN IF found # {} THEN { s.projects[CHOOSE i \in found : \A j \in found : i <= j] }
            ELSE IF s.projects # <<>> THEN { s.projects[1] }
            ELSE {}

\* get activeProjects()
activeProjects(s) ==
    LET isActive(p) == \E k \in 1..Len(s.activeProjectIds) : s.activeProjectIds[k] = p.id
    IN SelectSeq(s.projects, isActive)

\* get hasProject()
hasProject(s) == Len(s.projects) > 0

\* mutant of onDidChangeProject: divisionProjectId is taken from the last
\* active project
onDidChangeProjectLast(s) ==
    LET actives == activeProjects(s)
        RECURSIVE flatMap(_)
        flatMap(ps) == IF ps = <<>> THEN <<>> ELSE Head(ps).agents \o flatMap(Tail(ps))
    IN [s EXCEPT !.fired = TRUE,
                 !.written = IF actives # <<>>
                             THEN { [roleAssignments |-> flatMap(actives),
                                     divisionProjectId |-> actives[Len(actives)].projectId] }
                             ELSE {}]

\* _onDidChangeProject.fire(): the listener of the constructor copies the
\* active projects into the global settings; written is what it set there
onDidChangeProject(s) ==
    LET actives == activeProjects(s)
        RECURSIVE flatMap(_)
        flatMap(ps) == IF ps = <<>> THEN <<>> ELSE Head(ps).agents \o flatMap(Tail(ps))
    IN [s EXCEPT !.fired = TRUE,
                 !.written = IF actives # <<>>
                             THEN { [roleAssignments |-> flatMap(actives),
                                     divisionProjectId |-> actives[1].projectId] }
                             ELSE {}]

\* what _readConfig makes of the content it read: the project list, the
\* active ids, and whether it goes on to rewrite the file (migration)
parsedConfig(content) ==
    LET def == defaultDivisionProjectsFile.projects[1]
        default == [projects |-> << def >>, activeProjectIds |-> << def.id >>,
                    migrate |-> FALSE]
    IN IF content.format \in {"missing", "invalid"} THEN default
       ELSE IF content.format = "multi" THEN
            LET listed == [i \in 1..Len(content.projects) |->
                             IF content.projects[i].id = ""
                             THEN [content.projects[i] EXCEPT !.id = "u"]
                             ELSE content.projects[i]]
                projects == IF listed = <<>> THEN << def >> ELSE listed
                exists(id) == \E i \in 1..Len(projects) : projects[i].id = id
                filtered == IF content.activeProjectIds = {} THEN <<>>
                            ELSE SelectSeq(CHOOSE ids \in content.activeProjectIds : TRUE,
                                           exists)
            IN [projects |-> projects,
                activeProjectIds |->
                    IF content.activeProjectIds # {}
                    THEN (IF filtered = <<>> THEN << projects[1].id >> ELSE filtered)
                    ELSE IF \E id \in content.activeProjectId : exists(id)
                    THEN << CHOOSE id \in content.activeProjectId : TRUE >>
                    ELSE << projects[1].id >>,
                migrate |-> FALSE]
       ELSE IF content.format = "legacy" THEN
            [projects |-> << [def EXCEPT !.projectId = content.projectId] >>,
             activeProjectIds |-> << "u" >>,
             migrate |-> TRUE]
       ELSE default

\* agents.json has changed on disk: the onDidFilesChange handler that
\* _initForWorkspace registered starts _readConfig. A _readConfig whose
\* readFile is still pending reads the changed file anyway, so that no
\* second one is started beside it
onDidFilesChange(s) ==
    IF s.watching /\ \A i \in 1..Len(s.pending) : s.pending[i].op # "readFile"
    THEN [s EXCEPT !.pending = Append(@, [op |-> "readFile", init |-> FALSE,
                                          config |-> {},
                                          file |-> defaultDivisionProjectsFile])]
    ELSE s

\* _persistToDisk() and the continuation of the mutation that awaits it: with
\* no config uri it returns at once and the event fires; otherwise the file
\* built from the lists as they are now is handed to writeFile, which is
\* pending from here on
persistToDisk(s, config) ==
    IF ~s.uri THEN onDidChangeProject(s)
    ELSE [s EXCEPT !.pending = Append(@,
            [op |-> "persist", init |-> FALSE, config |-> config,
             file |-> [defaultDivisionProjectsFile EXCEPT
                          !.projects = s.projects,
                          !.activeProjectIds = { s.activeProjectIds }]])]

\* the variables of the requests, which the service leaves alone
serviceUnused ==
    << rawFilePath, allowedTools, specialToolFormat, payload, reasoningIO, installed,
       providerName, operation, implementation, family, reasoningField, pc,
       accVars, snapshot, calls, nSetAborter, nAbort, cancelAt, recv, outcome,
       failure, capabilities, divVars >>

\* service holds _projectConfigUri (uri: it is set), _projects,
\* _activeProjectIds, the agents.json of the workspace (disk), the awaited
\* file operations that have not settled (pending: exists, create, readFile,
\* persist, migrate, each with the file it writes, with init when
\* _initForWorkspace awaits it and with the config of the save or addProject
\* that awaits it), whether a change handler is registered (watching),
\* whether the step that led here fired onDidChangeProject and what its
\* listener wrote to the global settings (fired, written), and the config of
\* the last save or addProject that resolved and that no later removeProject,
\* save, edit of the file or change of folders has undone (completed)
\*
\* the service after its constructor: the listener is registered and
\* _initForWorkspace() has run up to its first await, or to its return when
\* the workspace has no folder; no agents.json exists yet
InitService ==
    /\ \E folders \in BOOLEAN :
         service =
           [uri |-> folders,
            projects |-> <<>>, activeProjectIds |-> <<>>,
            disk |-> [defaultDivisionProjectsFile EXCEPT
                         !.format = "missing", !.projects = <<>>,
                         !.activeProjectIds = {}],
            pending |-> IF folders
                        THEN << [op |-> "exists", init |-> TRUE, config |-> {},
                                 file |-> defaultDivisionProjectsFile] >>
                        ELSE <<>>,
            watching |-> FALSE,
            fired |-> ~folders, written |-> {},
            completed |-> {}]
    /\ rawFilePath = <<>>
    /\ family = "none"
    /\ providerName = "none"
    /\ operation = "none"
    /\ implementation = "none"
    /\ allowedTools = {}
    /\ specialToolFormat = {}
    /\ payload = <<>>
    /\ reasoningIO = NoReasoningIO
    /\ installed = {}
    /\ capabilities = Capabilities("m", FALSE)
    /\ reasoningField = FALSE
    /\ pc = "start"
    /\ fullText = <<>>
    /\ fullReasoning = <<>>
    /\ toolName = <<>>
    /\ toolId = <<>>
    /\ toolParamsStr = <<>>
    /\ snapshot = <<>>
    /\ calls = <<>>
    /\ nSetAborter = 0
    /\ nAbort = 0
    /\ cancelAt = -1
    /\ recv = <<>>
    /\ outcome = "none"
    /\ selectedModel = "none"
    /\ tasks = <<>>
    /\ taskIdx = 0
    /\ failure = {}
    /\ files = {}

\* onDidChangeWorkspaceFolders: _initForWorkspace() up to its first await, or
\* to its return when the last folder went; the folders change while no
\* operation of the service is in flight
WorkspaceFoldersChange ==
    /\ service.pending = <<>>
    /\ LET s == [service EXCEPT !.uri = ~@, !.fired = FALSE, !.written = {},
                                !.completed = {}]
       IN service' =
            IF ~s.uri
            THEN onDidChangeProject([s EXCEPT !.projects = <<>>,
                                              !.activeProjectIds = <<>>])
            ELSE [s EXCEPT !.pending = Append(@, [op |-> "exists", init |-> TRUE,
                                                  config |-> {},
                                                  file |-> defaultDivisionProjectsFile])]
    /\ UNCHANGED serviceUnused

\* fileService.exists has answered: _readConfig or _createDefaultConfig starts
ExistsResolves ==
    /\ \E i \in 1..Len(service.pending) :
         /\ service.pending[i].op = "exists"
         /\ service' =
              [service EXCEPT
                 !.pending[i].op = IF service.disk.format # "missing"
                                   THEN "readFile" ELSE "create",
                 !.fired = FALSE, !.written = {}]
    /\ UNCHANGED serviceUnused

\* _createDefaultConfig: writeFile has settled; whether it wrote the file or
\* threw, the default file becomes the state and the event fires; back in
\* _initForWorkspace the watcher is registered (a handler of an earlier
\* _initForWorkspace sees the write)
CreateDefaultSettles ==
    /\ \E i \in 1..Len(service.pending), written \in BOOLEAN :
         /\ service.pending[i].op = "create"
         /\ LET s == onDidChangeProject(
                   [service EXCEPT
                      !.pending = SubSeq(@, 1, i - 1) \o SubSeq(@, i + 1, Len(@)),
                      !.disk = IF written THEN defaultDivisionProjectsFile ELSE @,
                      !.projects = defaultDivisionProjectsFile.projects,
                      !.activeProjectIds =
                          << defaultDivisionProjectsFile.projects[1].id >>])
            IN service' = [(IF written THEN onDidFilesChange(s) ELSE s)
                           EXCEPT !.watching = TRUE]
    /\ UNCHANGED serviceUnused

\* _readConfig: readFile has settled with what the file holds now, and the
\* rest of _readConfig runs: the lists are replaced and the event fires, or,
\* for the legacy format, the lists are replaced and the file is rewritten
ReadSettles ==
    /\ \E i \in 1..Len(service.pending) :
         /\ service.pending[i].op = "readFile"
         /\ LET parsed == parsedConfig(service.disk)
                s == [service EXCEPT
                        !.projects = parsed.projects,
                        !.activeProjectIds = parsed.activeProjectIds,
                        !.fired = FALSE, !.written = {}]
                settled == [s EXCEPT
                        !.pending = SubSeq(@, 1, i - 1) \o SubSeq(@, i + 1, Len(@)),
                        !.watching = @ \/ service.pending[i].init]
            IN service' =
                 IF parsed.migrate /\ s.uri
                 THEN [s EXCEPT !.pending[i].op = "migrate",
                                !.pending[i].file =
                                    [defaultDivisionProjectsFile EXCEPT
                                        !.projects = s.projects,
                                        !.activeProjectIds = { s.activeProjectIds }]]
                 ELSE onDidChangeProject(settled)
    /\ UNCHANGED serviceUnused

\* writeFile of _persistToDisk has settled; writes to the one file land in the
\* order they were issued. Written: the awaiting mutation or migration fires
\* the event. Thrown: a mutation rejects without firing, and the catch of
\* _readConfig puts the default file into the state and fires
PersistSettles ==
    /\ \E i \in 1..Len(service.pending), written \in BOOLEAN :
         LET o == service.pending[i]
             s == [service EXCEPT
                     !.pending = SubSeq(@, 1, i - 1) \o SubSeq(@, i + 1, Len(@)),
                     !.fired = FALSE, !.written = {}]
         IN /\ o.op \in {"persist", "migrate"}
            /\ \A j \in 1..(i - 1) : service.pending[j].op \notin {"persist", "migrate"}
            /\ service' =
                 IF written
                 THEN [onDidFilesChange(onDidChangeProject(
                         [s EXCEPT !.disk = o.file,
                                   !.completed = IF o.config # {} THEN o.config ELSE @]))
                       EXCEPT !.watching = @ \/ o.init]
                 ELSE IF o.op = "migrate"
                 THEN onDidChangeProject(
                        [s EXCEPT !.projects = defaultDivisionProjectsFile.projects,
                                  !.activeProjectIds =
                                      << defaultDivisionProjectsFile.projects[1].id >>,
                                  !.watching = @ \/ o.init])
                 ELSE s
    /\ UNCHANGED serviceUnused

\* reload(): _readConfig starts when there is a config uri
reload ==
    /\ Len(service.pending) < MaxPending
    /\ service.uri
    /\ service' = [service EXCEPT
                     !.pending = Append(@, [op |-> "readFile", init |-> FALSE,
                                            config |-> {},
                                            file |-> defaultDivisionProjectsFile]),
                     !.fired = FALSE, !.written = {}]
    /\ UNCHANGED serviceUnused

\* somebody else writes agents.json: text that is no JSON, the legacy
\* single-project format, and the multi-project format with the legacy
\* activeProjectId and a project without id, and with an unknown active id
ExternalEdit ==
    /\ LET def == defaultDivisionProjectsFile.projects[1]
           b == [id |-> "b", projectId |-> "q", agents |-> << << "b", "q" >> >>]
           File(format, projects, ids, id, projectId) ==
               [format |-> format, projects |-> projects, activeProjectIds |-> ids,
                activeProjectId |-> id, projectId |-> projectId]
       IN \E file \in { File("invalid", <<>>, {}, {}, ""),
                        File("legacy", <<>>, {}, {}, ""),
                        File("multi", << [def EXCEPT !.id = ""], b >>, {}, {"b"}, ""),
                        File("multi", << b >>, { << "z" >> }, {}, "") } :
            /\ file # service.disk
            /\ Len(service.pending) < MaxPending
            /\ service' = onDidFilesChange(
                 [service EXCEPT !.disk = file, !.completed = {},
                                 !.fired = FALSE, !.written = {}])
    /\ UNCHANGED serviceUnused

\* save(config)
save ==
    /\ service.uri =>
         /\ Len(service.pending) < MaxPending
         /\ Cardinality({ i \in 1..Len(service.pending) :
                            service.pending[i].op = "persist" }) < MaxWrites
    /\ \E config \in ProjectConfigs :
         LET found == { i \in 1..Len(service.projects) : service.projects[i].id = config.id }
             idx == CHOOSE i \in found : \A j \in found : i <= j
         IN /\ found = {} => Len(service.projects) < MaxProjects
            /\ service' = persistToDisk(
                 [service EXCEPT
                    !.projects = IF found # {} THEN [@ EXCEPT ![idx] = config]
                                 ELSE Append(@, config),
                    !.completed = { c \in @ : c.id # config.id },
                    !.fired = FALSE, !.written = {}],
                 {config})
    /\ UNCHANGED serviceUnused

\* toggleActiveProject(id)
toggleActiveProject ==
    /\ service.uri =>
         /\ Len(service.pending) < MaxPending
         /\ Cardinality({ i \in 1..Len(service.pending) :
                            service.pending[i].op = "persist" }) < MaxWrites
    /\ \E id \in {"a", "b", "u", "z"} :
         LET s == [service EXCEPT !.fired = FALSE, !.written = {}]
             isActive == \E k \in 1..Len(s.activeProjectIds) : s.activeProjectIds[k] = id
             other(aid) == aid # id
         IN service' =
              IF ~\E i \in 1..Len(s.projects) : s.projects[i].id = id THEN s
              ELSE persistToDisk(
                     [s EXCEPT !.activeProjectIds =
                         IF isActive
                         THEN (IF Len(@) > 1 THEN SelectSeq(@, other) ELSE @)
                         ELSE Append(@, id)],
                     {})
    /\ UNCHANGED serviceUnused

\* mutant of setActiveProject: the project is added to the active ones
setActiveProjectAppending ==
    /\ service.uri =>
         /\ Len(service.pending) < MaxPending
         /\ Cardinality({ i \in 1..Len(service.pending) :
                            service.pending[i].op = "persist" }) < MaxWrites
    /\ \E id \in {"a", "b", "u", "z"} :
         LET s == [service EXCEPT !.fired = FALSE, !.written = {}]
         IN service' =
              IF ~\E i \in 1..Len(s.projects) : s.projects[i].id = id THEN s
              ELSE persistToDisk([s EXCEPT !.activeProjectIds = Append(@, id)], {})
    /\ UNCHANGED serviceUnused

\* setActiveProject(id)
setActiveProject ==
    /\ service.uri =>
         /\ Len(service.pending) < MaxPending
         /\ Cardinality({ i \in 1..Len(service.pending) :
                            service.pending[i].op = "persist" }) < MaxWrites
    /\ \E id \in {"a", "b", "u", "z"} :
         LET s == [service EXCEPT !.fired = FALSE, !.written = {}]
         IN service' =
              IF ~\E i \in 1..Len(s.projects) : s.projects[i].id = id THEN s
              ELSE persistToDisk([s EXCEPT !.activeProjectIds = << id >>], {})
    /\ UNCHANGED serviceUnused

\* addProject(config)
addProject ==
    /\ service.uri =>
         /\ Len(service.pending) < MaxPending
         /\ Cardinality({ i \in 1..Len(service.pending) :
                            service.pending[i].op = "persist" }) < MaxWrites
    /\ Len(service.projects) < MaxProjects
    /\ \E config \in ProjectConfigs :
         service' = persistToDisk(
            [service EXCEPT !.projects = Append(@, config),
                            !.fired = FALSE, !.written = {}],
            {config})
    /\ UNCHANGED serviceUnused

\* removeProject(id)
removeProject ==
    /\ service.uri =>
         /\ Len(service.pending) < MaxPending
         /\ Cardinality({ i \in 1..Len(service.pending) :
                            service.pending[i].op = "persist" }) < MaxWrites
    /\ \E id \in {"a", "b", "u", "z"} :
         LET s == [service EXCEPT !.fired = FALSE, !.written = {}]
             kept(p) == p.id # id
             other(aid) == aid # id
             projects == SelectSeq(s.projects, kept)
             actives == SelectSeq(s.activeProjectIds, other)
         IN service' =
              IF Len(s.projects) <= 1 THEN s
              ELSE persistToDisk(
                     [s EXCEPT
                        !.projects = projects,
                        !.activeProjectIds =
                            IF actives # <<>> THEN actives
                            ELSE IF projects # <<>> THEN << projects[1].id >>
                            ELSE << "" >>,
                        !.completed = { c \in @ : c.id # id }],
                     {})
    /\ UNCHANGED serviceUnused

NextService ==
    \/ WorkspaceFoldersChange
    \/ ExistsResolves
    \/ CreateDefaultSettles
    \/ ReadSettles
    \/ PersistSettles
    \/ reload
    \/ ExternalEdit
    \/ save
    \/ toggleActiveProject
    \/ setActiveProject
    \/ addProject
    \/ removeProject

SpecService == InitService /\ [][NextService]_vars

\* ------------------------------------------------------------ properties
IsTerminal(c) == c.cb \in {"onFinalMessage", "onError"}

IsOnText(c) == c.cb = "onText"

IsOnError(c) == c.cb = "onError"

IsOnFinalMessage(c) == c.cb = "onFinalMessage"

TextCalls == SelectSeq(calls, IsOnText)

FinalCalls == SelectSeq(calls, IsOnFinalMessage)

ErrorCalls == SelectSeq(calls, IsOnError)

RECURSIVE Concat(_)
Concat(texts) == IF texts = <<>> THEN <<>> ELSE Head(texts) \o Concat(Tail(texts))

\* C1: the terminal callbacks onFinalMessage and onError are invoked at most
\* once in total, and no onText call follows the terminal callback: a terminal
\* call is always the last call made.
C1_TerminalIsLast ==
    \A i \in 1..Len(calls) : IsTerminal(calls[i]) => i = Len(calls)

C1_Witness ==
    /\ pc = "done"
    /\ Len(calls) >= 3
    /\ IsOnText(calls[1])
    /\ IsOnFinalMessage(calls[Len(calls)])

\* C2: every request that has finished has invoked a terminal callback,
\* however it ended (stream end, transport failure, failed client
\* construction, cancellation).
C2_TerminalWhenDone ==
    pc = "done" => \E i \in 1..Len(calls) : IsTerminal(calls[i])

\* C3: once the cancel function has been invoked, no further onText call is made.
C3_NoTextAfterCancel ==
    Cancelled => \A i \in (cancelAt + 1)..Len(calls) : ~IsOnText(calls[i])

\* C4: a request cancelled before completion ends with exactly one
\* onFinalMessage whose fullText and fullReasoning are empty, and no onError.
C4_CancelGivesEmptyFinal ==
    (pc = "done" /\ Cancelled) =>
        /\ Len(FinalCalls) = 1
        /\ FinalCalls[1].fullText = <<>>
        /\ FinalCalls[1].fullReasoning = <<>>
        /\ ErrorCalls = <<>>

IsTextFragment(r) == r.kind \in {"text", "block"}

Emits(r) == r.kind # "silent"

TextsOf(rs) == [i \in 1..Len(rs) |-> rs[i].text]

\* C5 as stated: N text fragments give exactly N onText calls, the k-th with
\* fullText the plain concatenation of fragments 1..k.
C5_OneCallPerTextFragment ==
    LET frags == SelectSeq(recv, IsTextFragment) IN
    /\ Len(TextCalls) = Len(frags)
    /\ \A k \in 1..Len(frags) :
         TextCalls[k].fullText = Concat(TextsOf(SubSeq(frags, 1, k)))

RECURSIVE CumulativeText(_)
\* the text so far: fragments in order, a blank line before a text block that
\* starts after text has accumulated
CumulativeText(rs) ==
    IF rs = <<>> THEN <<>>
    ELSE LET before == CumulativeText(SubSeq(rs, 1, Len(rs) - 1))
             r == rs[Len(rs)]
         IN IF r.kind = "block" /\ before # <<>> THEN (before \o BlankLine) \o r.text
            ELSE before \o r.text

\* C5 amended: every inbound chunk, content-block start or delta event, or
\* progress string gives exactly one onText call, and the k-th call carries
\* the whole text so far (cumulative), with the Anthropic blank-line separator
\* between text blocks.
C5_OneCumulativeCallPerEvent ==
    LET events == SelectSeq(recv, Emits) IN
    /\ Len(TextCalls) = Len(events)
    /\ \A k \in 1..Len(events) :
         TextCalls[k].fullText = CumulativeText(SubSeq(events, 1, k))

C5_Witness ==
    /\ Len(TextCalls) = 3
    /\ Len(SelectSeq(recv, IsTextFragment)) = 3
    /\ Len(TextCalls[3].fullText) = 3
    /\ TextCalls[1].fullText # TextCalls[2].fullText

NeverLonger(c, d) ==
    /\ Len(c.fullText) <= Len(d.fullText)
    /\ Len(c.fullReasoning) <= Len(d.fullReasoning)

\* C6 as stated: over the onText emissions and the FinalMessage of a request,
\* the lengths of fullText and fullReasoning never decrease.
C6_LengthsNeverDecrease ==
    \A i, j \in 1..Len(calls) :
        (i < j /\ ~IsOnError(calls[i]) /\ ~IsOnError(calls[j])) =>
            NeverLonger(calls[i], calls[j])

\* C6 amended: the lengths never decrease, except that the FinalMessage of a
\* Division request cancelled while /api/tasks/create is in flight is empty.
C6_LengthsNeverDecreaseUnlessCancelled ==
    \A i, j \in 1..Len(calls) :
        (i < j /\ ~IsOnError(calls[i]) /\ ~IsOnError(calls[j])) =>
            \/ NeverLonger(calls[i], calls[j])
            \/ /\ IsOnFinalMessage(calls[j])
               /\ family = "division"
               /\ outcome = "aborted"
               /\ calls[j].fullText = <<>>

C6_Witness ==
    /\ pc = "done"
    /\ outcome = "ended"
    /\ Len(TextCalls) >= 2
    /\ Len(FinalCalls) = 1
    /\ Len(FinalCalls[1].fullText) > Len(TextCalls[1].fullText)
    /\ FinalCalls[1].fullReasoning # <<>>

\* C7: a stream that completes naturally with no text, no reasoning and no
\* tool name gives exactly one onError, classified empty-response, and no
\* onFinalMessage.
C7_EmptyResponseIsError ==
    (/\ pc = "done"
     /\ outcome = "ended"
     /\ ~Cancelled
     /\ fullText = <<>>
     /\ fullReasoning = <<>>
     /\ toolName = <<>>) =>
        /\ Len(ErrorCalls) = 1
        /\ ErrorCalls[1].message = "empty"
        /\ FinalCalls = <<>>

KeySet(entries) == { entries[i].k : i \in 1..Len(entries) }

\* the toolCall is the finished call for the plain object value
IsDoneCallFor(toolCall, value) ==
    /\ Cardinality(toolCall) = 1
    /\ \A tc \in toolCall :
         /\ tc.rawParams = value
         /\ { tc.doneParams[i] : i \in 1..Len(tc.doneParams) } = KeySet(value.entries)
         /\ Len(tc.doneParams) = Cardinality(KeySet(value.entries))
         /\ tc.isDone = TRUE

FirstToolUse == SelectSeq(snapshot, IsToolUseBlock)[1]

C9_MalformedArgumentsDropToolCall ==
    \A i \in 1..Len(FinalCalls) :
        (family \in {"openai", "gemini"} /\ JSONparse(toolParamsStr).type # "object") =>
            /\ FinalCalls[i].toolCall = {}
            /\ ErrorCalls = <<>>

\* C10: an onText emission made while no tool name has accumulated carries no
\* toolCall, and no emitted toolCall has an empty name.
C10_NoToolCallWithoutName ==
    /\ \A i \in 1..Len(calls) :
         IsOnText(calls[i]) => \A tc \in calls[i].toolCall : tc.name # <<>>
    /\ (calls # <<>> /\ IsOnText(calls[Len(calls)]) /\ toolName = <<>>) =>
         calls[Len(calls)].toolCall = {}

C10_Witness ==
    /\ Len(TextCalls) >= 2
    /\ TextCalls[1].toolCall = {}
    /\ TextCalls[2].toolCall # {}
    /\ toolName # <<>>

\* C11: every toolCall carried by an onText emission has isDone = false;
\* isDone = true appears only on the toolCall of the terminal FinalMessage,
\* whose toolCall, when present, is finished.
C11_IsDoneOnlyOnFinal ==
    \A i \in 1..Len(calls) :
        /\ IsOnText(calls[i]) => \A tc \in calls[i].toolCall : tc.isDone = FALSE
        /\ (\E tc \in calls[i].toolCall : tc.isDone = TRUE) =>
               (IsOnFinalMessage(calls[i]) /\ i = Len(calls))

C11_Witness ==
    /\ Len(calls) >= 2
    /\ IsOnText(calls[1])
    /\ \E tc \in calls[1].toolCall : tc.isDone = FALSE
    /\ IsOnFinalMessage(calls[Len(calls)])
    /\ \E tc \in calls[Len(calls)].toolCall : tc.isDone = TRUE

\* C12 as stated: a finished request has invoked _setAborter exactly once.
C12_SetAborterExactlyOnce ==
    pc = "done" => nSetAborter = 1

\* C12 amended: _setAborter is invoked at most once, never before the object
\* the cancel function acts on exists, and exactly once for every request
\* whose stream was established; a request whose client construction or
\* stream creation fails never invokes it.
C12_SetAborterOnceStreamExists ==
    /\ nSetAborter <= 1
    /\ pc \in {"start", "creating"} => nSetAborter = 0
    /\ pc \notin {"start", "creating", "done"} => nSetAborter = 1
    /\ (pc = "done" /\ outcome \in {"ended", "aborted"}) => nSetAborter = 1
    /\ outcome = "rejected" => nSetAborter = 0

C12_Witness ==
    /\ family = "gemini"
    /\ pc = "done"
    /\ outcome = "ended"
    /\ nSetAborter = 1
    /\ Len(TextCalls) >= 2

\* C13: cancellation is idempotent and a no-op after completion: a second
\* invocation of the cancel function, or one after the terminal callback,
\* changes nothing the caller can observe, and a finished request makes no
\* further onText, onFinalMessage or onError call.
C13_CancelIsIdempotent ==
    [][ /\ (nAbort' # nAbort /\ (nAbort > 0 \/ pc = "done")) =>
             UNCHANGED << buildVars, family, reasoningField, capabilities, failure, pc, accVars, snapshot, calls,
                          nSetAborter, cancelAt, recv, outcome, divVars >>
        /\ pc = "done" => calls' = calls ]_vars

C13_Witness ==
    /\ pc = "done"
    /\ nAbort = 2
    /\ cancelAt = -1
    /\ Len(calls) >= 2
    /\ IsTerminal(calls[Len(calls)])

LastCall == calls[Len(calls)]

\* C14: a 401-equivalent failure, from any provider family, is reported
\* through onError as invalid-credential (the message that names the
\* provider's display title).
C14_UnauthorizedIsInvalidCredential ==
    \A error \in failure :
        error.status = 401 =>
            /\ calls # <<>>
            /\ IsOnError(LastCall)
            /\ LastCall.message = "invalidApiKey"

\* C15: a failure that is HTTP 429-equivalent, or whose message matches the
\* rate-limit pattern, is reported through onError as rate-limited, in every
\* provider family.
C15_RateLimitIsClassified ==
    \A error \in failure :
        (error.status = 429 \/ error.message = "429") =>
            /\ calls # <<>>
            /\ IsOnError(LastCall)
            /\ LastCall.message = "rateLimit"

NamesOf(message) == { message[i] : i \in 1..Len(message) }

\* C16: a fill-in-middle request for a model that does not support it, in
\* every implementation of the dispatch table (and with a client that can be
\* built), issues no completion call and ends with one unsupported-operation
\* onError whose message names the requested and the resolved model.
C16_UnsupportedFIMIsRefusedFirst ==
    (family \in FIMFamilies /\ ~capabilities.supportsFIM /\ failure = {}) =>
        /\ pc \notin {"creating", "streaming"}
        /\ pc = "done" =>
             /\ outcome = "unsupported"
             /\ Len(calls) = 1
             /\ IsOnError(calls[1])
             /\ {Requested, capabilities.modelName} \subseteq NamesOf(calls[1].message)

\* C17: every error of a chat or fill-in-middle request, a configuration
\* error raised while the client is built included, ends the request with an
\* onError call; none escapes as an exception or a rejected promise.
C17_EveryErrorReachesOnError ==
    (pc = "done" /\ failure # {}) =>
        /\ outcome \notin {"rejected", "thrown"}
        /\ calls # <<>>
        /\ IsOnError(LastCall)

\* C18: a list request reports every failure (client construction,
\* transport, handling of the response pages) through the error callback,
\* never by throwing, and invokes exactly one of the success and error
\* callbacks.
C18_ListInvokesOneCallback ==
    family \in ListFamilies =>
        /\ outcome \notin {"rejected", "thrown"}
        /\ pc # "done" => calls = <<>>
        /\ pc = "done" =>
             /\ Len(calls) = 1
             /\ calls[1].cb \in {"onSuccess", "onError"}
             /\ failure # {} <=> IsOnError(calls[1])

C18_Witness ==
    /\ family = "openaiList"
    /\ pc = "done"
    /\ Len(recv) >= 1
    /\ failure # {}
    /\ Len(calls) = 1
    /\ IsOnError(calls[1])

IsFileLabel(r) == r.text \in {FileLabel(TRUE), FileLabel(FALSE)}

\* the labels of n saves of the path by a request that runs alone in a
\* workspace folder without the file
RECURSIVE LabelsAlone(_)
LabelsAlone(n) ==
    IF n = 0 THEN <<>> ELSE Append(LabelsAlone(n - 1), FileLabel(n > 1))

\* C19: a chat request running concurrently with another one produces the
\* callbacks, with the fullText in them, that it produces when it runs alone:
\* the file labels in its text are those of its own saves.
C19_TextAsWhenAlone ==
    LET labels == SelectSeq(recv, IsFileLabel)
    IN TextsOf(labels) = LabelsAlone(Len(labels))

ZeroTools == allowedTools = {} \/ allowedTools = {<<>>}

StyleOf(f) ==
    CASE f = "openai" -> "openai-style"
      [] f = "anthropic" -> "anthropic-style"
      [] f = "gemini" -> "gemini-style"

\* C20: in every request builder, a request built when zero tools are enabled
\* has no tools field (never an empty list), and a request has a tools field
\* only when at least one tool is enabled and the model's native tool style is
\* the one of the provider family; the field then declares every enabled tool.
C20_NoToolsFieldWithoutTools ==
    pc = "creating" /\ family \in BuildFamilies =>
        /\ ZeroTools => "tools" \notin DOMAIN payload
        /\ "tools" \in DOMAIN payload =>
              /\ ~ZeroTools
              /\ specialToolFormat = {StyleOf(family)}
              /\ payload.tools # <<>>
              /\ family = "gemini" =>
                    Len(payload.tools[1].functionDeclarations)
                        = Len(CHOOSE m \in allowedTools : TRUE)
              /\ family # "gemini" =>
                    Len(payload.tools) = Len(CHOOSE m \in allowedTools : TRUE)
        /\ ~ZeroTools /\ specialToolFormat = {StyleOf(family)} =>
              "tools" \in DOMAIN payload

C20_Witness ==
    /\ pc = "creating"
    /\ family = "openai"
    /\ allowedTools = {<<>>}
    /\ specialToolFormat = {"openai-style"}
    /\ "tools" \notin DOMAIN payload
    /\ "model" \in DOMAIN payload

\* the parameter declarations of the tool schemas of the request
DeclaredProperties ==
    IF "tools" \notin DOMAIN payload THEN {}
    ELSE CASE family = "openai" ->
                { payload.tools[i].function.parameters.properties :
                    i \in DOMAIN payload.tools }
           [] family = "anthropic" ->
                { payload.tools[i].input_schema.properties :
                    i \in DOMAIN payload.tools }
           [] family = "gemini" ->
                { payload.tools[1].functionDeclarations[i].parameters.properties :
                    i \in DOMAIN payload.tools[1].functionDeclarations }

\* C21: for each enabled tool and each provider family, every declared
\* parameter of the native tool schema in the request carries the type string.
C21_EveryParameterIsAString ==
    pc = "creating" /\ family \in BuildFamilies =>
        \A props \in DeclaredProperties : \A key \in DOMAIN props :
            /\ "type" \in DOMAIN props[key]
            /\ props[key].type \in {"string", "STRING"}

C23_DivisionObeysContract ==
    family = "division" =>
        /\ Len(TextCalls) = Len(recv)
        /\ \A k \in 1..Len(TextCalls) :
              /\ TextCalls[k].fullText = Concat(SubSeq(TextsOf(recv), 1, k))
              /\ TextCalls[k].fullReasoning = <<>>
              /\ TextCalls[k].toolCall = {}
        /\ outcome = "ended" =>
              /\ IsOnFinalMessage(LastCall)
              /\ TextCalls # <<>>
              /\ LastCall.fullText = TextCalls[Len(TextCalls)].fullText
              /\ LastCall.fullReasoning = <<>>
              /\ LastCall.toolCall = {}

C23_Witness ==
    /\ family = "division"
    /\ outcome = "ended"
    /\ selectedModel = "division-orchestrator"
    /\ taskIdx = 2
    /\ SavedPath \in files
    /\ Len(TextCalls) > 10

\* C24: for every provider identifier of the dispatch table, sendChat is a
\* function, and sendFIM and list are each a function or null, never undefined
\* or missing: whatever entry a caller looks up, it finds one of these.
C24_DispatchTableIsComplete ==
    /\ \A p \in DOMAIN sendLLMMessageToProviderImplementation :
          DOMAIN sendLLMMessageToProviderImplementation[p] = {"sendChat", "sendFIM", "list"}
    /\ pc = "dispatched" =>
          /\ implementation # "undefined"
          /\ operation = "sendChat" => implementation \in Families
          /\ operation = "sendFIM" => implementation \in FIMFamilies \cup {"null"}
          /\ operation = "list" => implementation \in ListFamilies \cup {"null"}

C24_Witness ==
    /\ pc = "dispatched"
    /\ providerName = "ollama"
    /\ operation = "list"
    /\ implementation = "ollamaList"

\* C25: in the Gemini family every tool call surfaced to the caller, in an
\* onText emission as well as in the FinalMessage, carries a non-empty
\* identifier, also when the provider supplied none.
C25_GeminiToolCallHasId ==
    family = "gemini" =>
        \A i \in 1..Len(calls) : \A tc \in calls[i].toolCall : tc.id # <<>>

\* the tool-call deltas of the chunks received, in arrival order
RECURSIVE DeltasOf(_)
DeltasOf(rs) ==
    IF rs = <<>> THEN <<>> ELSE Head(rs).tool_calls \o DeltasOf(Tail(rs))

HasIndexZero(tool) == tool.index = 0

NameOfDelta(tool) == OrEmpty(tool.name)

ArgumentsOfDelta(tool) == OrEmpty(tool.arguments)

IdOfDelta(tool) == OrEmpty(tool.id)

\* C26: in the OpenAI-wire family the tool name, id and argument string are
\* the concatenations, in arrival order, of the fragments of the tool-call
\* deltas with index 0; a delta with another index changes none of them.
C26_OnlyIndexZeroAccumulates ==
    family = "openai" =>
        LET honoured == SelectSeq(DeltasOf(recv), HasIndexZero)
            n == Len(honoured)
        IN /\ toolName = Concat([i \in 1..n |-> NameOfDelta(honoured[i])])
           /\ toolParamsStr = Concat([i \in 1..n |-> ArgumentsOfDelta(honoured[i])])
           /\ toolId = Concat([i \in 1..n |-> IdOfDelta(honoured[i])])

C26_Witness ==
    /\ family = "openai"
    /\ Len(SelectSeq(DeltasOf(recv), HasIndexZero)) = 2
    /\ Len(DeltasOf(recv)) > 2
    /\ toolName = <<"f">>
    /\ toolParamsStr = <<"{", "a:1", "}">>
    /\ toolId = <<"i">>

\* C27: in the Anthropic family the toolCall of the FinalMessage comes from the
\* first tool-use block of the terminal event alone: its id, name and rawParams
\* are those of that block, whatever name and argument text the block-start
\* and delta events accumulated, and there is none without such a block.
C27_FinalToolCallFromTerminalEvent ==
    (family = "anthropic" /\ outcome = "ended") =>
        /\ IsOnFinalMessage(LastCall)
        /\ Cardinality(LastCall.toolCall) <= 1
        /\ SelectSeq(snapshot, IsToolUseBlock) = <<>> => LastCall.toolCall = {}
        /\ \A tc \in LastCall.toolCall :
              /\ tc.id = FirstToolUse.id
              /\ tc.name = FirstToolUse.name
              /\ tc.rawParams = InputOf(FirstToolUse)
              /\ tc.isDone
        /\ (/\ SelectSeq(snapshot, IsToolUseBlock) # <<>>
            /\ TypeOf(InputOf(FirstToolUse)) = "object") => LastCall.toolCall # {}

C27_Witness ==
    /\ family = "anthropic"
    /\ outcome = "ended"
    /\ toolName = << "f", "g" >>
    /\ \E tc \in LastCall.toolCall : tc.name = << "f" >> /\ tc.id = << "t1" >>

\* what a block start contributes
ContentOf(e) ==
    IF e.sub = "redacted_thinking" THEN << "[redacted_thinking]" >> ELSE e.text

\* The blocks whose start is in starts, each with its deltas of type delta,
\* joined with a blank line: before every block but the first (always), or
\* before every block that finds text accumulated (not always).
RECURSIVE Joined(_, _, _, _)
Joined(rs, starts, delta, always) ==
    IF rs = <<>> THEN [text |-> <<>>, blocks |-> 0]
    ELSE LET before == Joined(SubSeq(rs, 1, Len(rs) - 1), starts, delta, always)
             e == rs[Len(rs)].event
         IN IF e.type = "content_block_start" /\ e.sub \in starts
            THEN [text |-> (IF (always /\ before.blocks > 0)
                               \/ (~always /\ before.text # <<>>)
                            THEN before.text \o BlankLine ELSE before.text)
                           \o ContentOf(e),
                  blocks |-> before.blocks + 1]
            ELSE IF e.type = "content_block_delta" /\ e.sub = delta
            THEN [before EXCEPT !.text = @ \o e.text]
            ELSE before

C29_FIMInvokesOneTerminalCallback ==
    family \in FIMFamilies =>
        /\ TextCalls = <<>>
        /\ Len(calls) <= 1
        /\ pc = "done" =>
             /\ Len(calls) = 1
             /\ failure = {} /\ capabilities.supportsFIM =>
                   /\ IsOnFinalMessage(calls[1])
                   /\ calls[1].fullText = fullText
             /\ failure # {} => IsOnError(calls[1])

\* C30: a credential or configuration error raised while the client of the
\* provider is built (custom headers that do not parse, unknown provider,
\* failed token fetch, empty Ollama endpoint) occurs before the call to the
\* provider is issued and before any onText emission: the request is still at
\* its start, has received nothing and has made no callback, and it ends there.
C30_ClientErrorBeforeAnyCall ==
    [][(failure' # failure /\ failure' = {Thrown("configuration")}) =>
          /\ pc = "start"
          /\ calls = <<>>
          /\ recv = <<>>
          /\ nSetAborter = 0
          /\ pc' = "done"
          /\ \A i \in 1..Len(calls') : ~IsOnText(calls'[i])]_vars

C30_Witness ==
    /\ family = "openai"
    /\ pc = "done"
    /\ failure = {Thrown("configuration")}
    /\ recv = <<>>
    /\ TextCalls = <<>>

\* the file lies under the directory
Under(file, directory) ==
    /\ Len(file) > Len(directory)
    /\ SubSeq(file, 1, Len(directory)) = directory

\* C31: saveCodeBlocksFromOutput never creates or overwrites a file outside
\* the workspace root: whatever the annotated path (relative, absolute, with
\* ".." segments, sharing a string prefix with the root), a file is written
\* only if it lies under the workspace root directory.
C31_WritesOnlyUnderRoot ==
    rawFilePath # <<>> => \A file \in files : Under(file, workspaceRoot)

\* C35: whenever a FinalMessage carries a toolCall, its name is the tool name
\* carried by the last onText emission of the request, in every provider
\* family and for any number of tool-call or tool-use blocks.
C35_FinalToolNameIsLastEmitted ==
    \A i \in 1..Len(FinalCalls) : \A tc \in FinalCalls[i].toolCall :
        /\ TextCalls # <<>>
        /\ \E partial \in TextCalls[Len(TextCalls)].toolCall : partial.name = tc.name

\* C36: a FinalMessage of the OpenAI-wire or Gemini family carries a toolCall
\* only if a non-empty tool name was accumulated: none has a toolCall whose
\* name is empty, also when argument text that parses as an object arrived
\* without a name.
C36_NoFinalToolCallWithoutName ==
    family \in {"openai", "gemini"} =>
        \A i \in 1..Len(FinalCalls) : \A tc \in FinalCalls[i].toolCall :
            /\ tc.name # <<>>
            /\ toolName # <<>>

\* C37: in orchestration mode the tasks of the create response are executed
\* one at a time in list order: each task gets exactly one /api/generate call
\* followed by exactly one PATCH attempt whose status is 'failed' exactly
\* when the generate call returned an error; a rejected PATCH neither stops
\* the later tasks nor produces an onError, and onFinalMessage comes only
\* after the PATCH attempt of the last task has settled.
C37_TasksRunOneAtATimeInOrder ==
    (family = "division" /\ tasks # <<>>) =>
        /\ taskIdx \in 1..Len(tasks)
        /\ \A i \in 1..Len(tasks) :
             LET done == i < taskIdx \/ (i = taskIdx /\ pc = "done")
                 patching == i = taskIdx /\ pc = "taskPatch"
                 n == IF done \/ patching THEN 1 ELSE 0
             IN /\ Len(tasks[i].generated) = n
                /\ Len(tasks[i].patched) = n
                /\ Len(tasks[i].settled) = IF done THEN 1 ELSE 0
                /\ n = 1 => (tasks[i].patched[1] = "failed" <=> tasks[i].generated[1].error)
                /\ n = 1 => tasks[i].patched[1] \in {"failed", "completed"}
        /\ ErrorCalls = <<>>
        /\ FinalCalls # <<>> =>
             /\ pc = "done"
             /\ \A i \in 1..Len(tasks) : Len(tasks[i].settled) = 1
        /\ pc = "done" => Len(FinalCalls) = 1

C37_Witness ==
    /\ family = "division"
    /\ Len(tasks) = 2
    /\ pc = "done"
    /\ tasks[1].patched = << "failed" >>
    /\ tasks[1].settled = << "rejected" >>
    /\ tasks[2].patched = << "completed" >>
    /\ ~Cancelled
    /\ FinalCalls # <<>>

\* C32: setActiveProject(id) with the id of a project of the list leaves
\* activeProjectIds = [id]; with any other id it leaves the project list,
\* activeProjectIds and the file on disk as they were and fires no event.
C32_SetActiveProjectIsExclusive ==
    [][ setActiveProject =>
          \E id \in {"a", "b", "u", "z"} :
             IF \E i \in 1..Len(service.projects) : service.projects[i].id = id
             THEN /\ service'.activeProjectIds = << id >>
                  /\ service'.projects = service.projects
             ELSE /\ service'.projects = service.projects
                  /\ service'.activeProjectIds = service.activeProjectIds
                  /\ service'.disk = service.disk
                  /\ service'.pending = service.pending
                  /\ ~service'.fired ]_vars

C32_Witness ==
    /\ Len(service.projects) = 2
    /\ service.activeProjectIds = << service.projects[2].id >>
    /\ service.projects[1].id # service.projects[2].id
    /\ service.disk.activeProjectIds = { service.activeProjectIds }
    /\ service.disk.projects = service.projects
    /\ service.fired

\* _initForWorkspace has run to its end for a workspace with a folder
Initialised ==
    /\ service.uri
    /\ \A i \in 1..Len(service.pending) : ~service.pending[i].init

\* C33: once the service is initialised for a workspace with a folder, the
\* project list is never empty and activeProjectIds is never empty, whatever
\* sequence of save, addProject, removeProject, toggleActiveProject,
\* setActiveProject and reload follows.
C33_ListsNeverEmpty ==
    Initialised => (service.projects # <<>> /\ service.activeProjectIds # <<>>)

\* C34: hasProject is true exactly when .division/agents.json exists in the
\* workspace: it is false with no workspace folder, and false when the file
\* could not be created or read.
C34_HasProjectIffFileExists ==
    service.pending = <<>> =>
        (hasProject(service) <=> (service.uri /\ service.disk.format # "missing"))

\* C38: every id in activeProjectIds is the id of a project of the list, and
\* none is the empty string, after any sequence of reads of agents.json and
\* of save, addProject, removeProject, toggleActiveProject, setActiveProject.
C38_ActiveIdsNameProjects ==
    \A k \in 1..Len(service.activeProjectIds) :
        /\ service.activeProjectIds[k] # ""
        /\ \E i \in 1..Len(service.projects) :
             service.projects[i].id = service.activeProjectIds[k]

\* C39: whenever onDidChangeProject fires with at least one active project,
\* the divisionProjectId written to the global settings is the projectId of
\* the project projectConfig returns, and roleAssignments is the
\* concatenation of the agents of exactly the active projects.
C39_SettingsFollowProjectConfig ==
    (service.fired /\ activeProjects(service) # <<>>) =>
        LET actives == activeProjects(service)
        IN \E setting \in service.written :
             /\ \E config \in projectConfig(service) :
                  setting.divisionProjectId = config.projectId
             /\ setting.roleAssignments =
                  Concat([i \in 1..Len(actives) |-> actives[i].agents])

\* every operation has settled and the workspace has a folder
Settled ==
    /\ service.uri
    /\ service.pending = <<>>

\* C40: a completed mutation is never lost: once all pending operations have
\* settled, the project list and activeProjectIds in memory equal the
\* contents of the agents.json of the workspace and include the mutation,
\* under any interleaving of the mutations with a _readConfig started by the
\* file watcher, by reload or by a workspace-folder change.
C40_CompletedMutationIsKept ==
    (Settled /\ service.completed # {}) =>
        /\ service.disk.format = "multi"
        /\ service.disk.projects = service.projects
        /\ service.disk.activeProjectIds = { service.activeProjectIds }
        /\ \A config \in service.completed :
             \E i \in 1..Len(service.projects) : service.projects[i] = config

====
